---- MODULE Spec2Model ----
(***************************************************************************)
(* Model of the native audio-capture core (native-module/src):             *)
(*   - SilenceSuppressor  (silence_suppression.rs)                         *)
(*   - StreamingResampler (streaming_resampler.rs)                         *)
(*   - capture controllers, OS callbacks and DSP workers (lib.rs,          *)
(*     microphone.rs, speaker/*.rs)                                        *)
(* Time is counted in milliseconds.  Instant::now() is a monotonic clock   *)
(* read at every call; the time that passed since the previous read is an  *)
(* input of the action.                                                    *)
(***************************************************************************)
EXTENDS Integers, Sequences, FiniteSets, TLC

(***************************************************************************)
(* Bounds of the model.                                                    *)
(***************************************************************************)
\* samples per frame (audio_config.rs: FRAME_SAMPLES = 320), scaled down
FRAME_SAMPLES == 2
\* process/reset calls of the suppressor with free timing
MaxFree == 3
\* process calls of the suppressor in all
MaxFrames == 9
\* the clock stops being advanced beyond this many milliseconds
MaxTime == 900
\* samples of an input stream given to the resampler
MaxStream == 5
\* samples a microphone ring holds
\* (audio_config.rs: RING_BUFFER_SAMPLES = 32768), scaled down
RING_BUFFER_SAMPLES == 3
\* samples a system-audio ring holds
\* (core_audio.rs, sck.rs: buffer_size = 1024 * 128), scaled down
SPEAKER_BUFFER_SIZE == 4
\* samples a worker drains per iteration
\* (lib.rs: raw_batch.len() >= 480), scaled down
DRAIN_BATCH == 3
\* consecutive dropping callbacks the audio tap tolerates
\* (core_audio.rs: consecutive > 50), scaled down
DROP_LIMIT == 3
\* start and stop calls on a controller
MaxCalls == 3
\* silent frames of a run at the frame cadence
RunFrames == 1000
\* the audio tap logs every so many callbacks
\* (core_audio.rs: LOG_COUNTER % 100), scaled down
LOG_EVERY == 3
\* consecutive dropping callbacks at which the audio tap warns
\* (core_audio.rs: consecutive == 25), scaled down
DROP_WARN == 2
\* polls of the shareable-content wait (sck.rs: 0..500), scaled down
CONTENT_POLLS == 3
\* polls of the stream-start wait (sck.rs: 0..200), scaled down
START_POLLS == 2
\* samples accepted into rings in all
MaxAccepted == 6
\* samples of a stream that is fed around a reset
ResetStream == 4
\* samples of a frame whose RMS is taken over more than one sample
RmsLen == 6
\* callbacks of a controller started in any order run until this many
\* samples were accepted
CtlAccepted == 3

(***************************************************************************)
(* Program constants.                                                      *)
(***************************************************************************)
\* audio_config.rs: FRAME_MS
FRAME_MS == 20
\* audio_config.rs: SAMPLE_RATE, the output rate every worker resamples to
SAMPLE_RATE == 16000
\* an f32 sample x is held as the integer x * SAMPLE_DEN
SAMPLE_DEN == 4

VARIABLES
    suppressor,     \* SilenceSuppressor: config, state, timestamps, counters
    now,            \* the monotonic clock at its latest read
    sup_op,         \* latest suppressor operation: "new", "process", "reset"
    sup_frame,      \* frame passed to the latest process call
    sup_action,     \* FrameAction returned by the latest process call
    sup_prev,       \* the suppressor before the latest operation
    processed,      \* number of process calls since construction
    phase,          \* "free": any frames at any times; "silence": silent
                    \* frames, one per FRAME_MS
    last_delivery,  \* time of the latest sink delivery of the silence run
    delivery_gap,   \* time between the two latest deliveries of the run
    resampler,      \* StreamingResampler fed chunk by chunk
    res_stream,     \* the whole input stream
    res_fed,        \* samples of res_stream given to resample so far
    res_out,        \* concatenation of the outputs of the calls so far
    res_chunk,      \* chunk given to the latest resample call
    fresh,          \* <<>>, or since the latest reset <<r>>: r is a
                    \* resampler built by new at that reset and fed the
                    \* same chunks
    fresh_out,      \* concatenation of the outputs of fresh
    kind,           \* "mic": MicrophoneCapture, "sys": SystemAudioCapture
    stop_signal,    \* the controller's stop_signal
    capture_thread, \* the controller's capture_thread: None or a worker
    device_id,      \* SystemAudioCapture.device_id: "none", "sck"
    streams,        \* the source streams opened so far
    stream,         \* SystemAudioCapture.stream / MicrophoneCapture.input
    workers,        \* the DSP threads spawned so far
    ctl_pc,         \* the controller thread: "idle", or "joining" in stop
    ctl_hist,       \* the start and stop calls that returned, in order
    sink,           \* the sink invocations so far, in order
    pipe_now,       \* the monotonic clock read by the workers
    joined,         \* workers whose join has returned
    accepted,       \* samples accepted into rings so far
    device_arg,     \* the device id SystemAudioCapture::new was given
    res_calls,      \* chunk size and output length of every resample call
                    \* on a non-empty chunk
    cb_backend,     \* the callback looked at: "mic", "tap", "sck"
    cb_pc,          \* position of the callback thread in an invocation
    cb_effects,     \* kinds of operation the current invocation performed
    log_counter,    \* core_audio.rs LOG_COUNTER, modulo LOG_EVERY
    cb_drops,       \* core_audio.rs Ctx.consecutive_drops
    cb_terminate,   \* core_audio.rs Ctx.should_terminate
    has_data,       \* core_audio.rs WakerState.has_data
    stdout_owner,   \* holder of the lock of std::io::stdout: "none",
                    \* "callback", "other"
    sck_pc,         \* position of the thread that opens the screen capture
    sck_polls,      \* iterations of the current wait loop so far
    content_cb,     \* shareable-content handler: "pending", "writing",
                    \* "stored", "done"
    content_cell,   \* content_cell (an UnsafeCell) holds Some(content)
    content_ready,  \* sck.rs content_ready
    content_error,  \* sck.rs content_error
    start_cb,       \* stream-start handler: "pending", "stored", "done"
    start_complete, \* sck.rs start_complete
    start_error,    \* sck.rs start_error: 0 pending, 1 success, 2 error
    sck_result      \* what the opening returned: "none", "err_denied",
                    \* "err_timeout", "err_displays", "stream"

supVars == <<suppressor, now, sup_op, sup_frame, sup_action, sup_prev,
             processed, phase, last_delivery, delivery_gap>>

resVars == <<resampler, res_stream, res_fed, res_out, res_chunk, res_calls,
             fresh, fresh_out>>

pipeVars == <<kind, device_arg, stop_signal, capture_thread, device_id,
              streams, stream, workers, ctl_pc, ctl_hist, sink, pipe_now,
              joined, accepted>>

cbVars == <<cb_backend, cb_pc, cb_effects, log_counter, cb_drops,
            cb_terminate, has_data, stdout_owner>>

sckVars == <<sck_pc, sck_polls, content_cb, content_cell, content_ready,
             content_error, start_cb, start_complete, start_error,
             sck_result>>

auxVars == <<cbVars, sckVars>>

vars == <<supVars, resVars, pipeVars, auxVars>>

None == -1

\* no callback is looked at
CbIdle ==
    /\ cb_backend = "mic"
    /\ cb_pc = "idle"
    /\ cb_effects = {}
    /\ log_counter = 0
    /\ cb_drops = 0
    /\ cb_terminate = FALSE
    /\ has_data = FALSE
    /\ stdout_owner = "none"

\* no screen capture is being opened
SckIdle ==
    /\ sck_pc = "idle"
    /\ sck_polls = 0
    /\ content_cb = "pending"
    /\ content_cell = FALSE
    /\ content_ready = FALSE
    /\ content_error = FALSE
    /\ start_cb = "pending"
    /\ start_complete = FALSE
    /\ start_error = 0
    /\ sck_result = "none"

AuxIdle == CbIdle /\ SckIdle

(***************************************************************************)
(* silence_suppression.rs                                                  *)
(***************************************************************************)

\* SilenceSuppressionConfig::default / for_microphone
ConfigMicrophone ==
    [speech_threshold_rms |-> 100, speech_hangover |-> 200,
     silence_keepalive_interval |-> 100]

\* SilenceSuppressionConfig::for_system_audio
ConfigSystemAudio ==
    [speech_threshold_rms |-> 30, speech_hangover |-> 300,
     silence_keepalive_interval |-> 100]

\* the config built by tests::test_silence_keepalive
ConfigTestKeepalive ==
    [speech_threshold_rms |-> 100, speech_hangover |-> 0,
     silence_keepalive_interval |-> 50]

SupConfigs == {ConfigMicrophone, ConfigSystemAudio, ConfigTestKeepalive}

\* indices (1-based) visited by samples.iter().step_by(4)
StrideIndices(samples) == {i \in 1..Len(samples) : (i - 1) % 4 = 0}

RECURSIVE SumSquares(_, _)
SumSquares(samples, idxs) ==
    IF idxs = {} THEN 0
    ELSE LET i == CHOOSE j \in idxs : TRUE
         IN samples[i] * samples[i] + SumSquares(samples, idxs \ {i})

\* the strided sum of squares divided by the length of the slice
RmsAtLeast_len(samples, threshold) ==
    IF Len(samples) = 0 THEN 0 >= threshold
    ELSE LET sum_of_squares == SumSquares(samples, StrideIndices(samples))
             count == Len(samples)
         IN sum_of_squares >= threshold * threshold * count

\* calculate_rms(samples) >= threshold, without the square root:
\* sqrt(sum_of_squares / count) >= t  <=>  sum_of_squares >= t*t*count.
\* An empty slice has rms 0.0.
RmsAtLeast(samples, threshold) ==
    IF Len(samples) = 0 THEN 0 >= threshold
    ELSE LET sum_of_squares == SumSquares(samples, StrideIndices(samples))
             count == (Len(samples) + 3) \div 4
         IN sum_of_squares >= threshold * threshold * count

\* a silence frame that is not zero
generate_silence_frame_ones(size) == [i \in 1..size |-> 1]

\* generate_silence_frame(size)
generate_silence_frame(size) == [i \in 1..size |-> 0]

ActSend(frame) == [kind |-> "Send", frame |-> frame]
ActSendSilence == [kind |-> "SendSilence", frame |-> <<>>]
ActSuppress == [kind |-> "Suppress", frame |-> <<>>]

\* SilenceSuppressor::new(config) at time t
SuppressorNew(config, t) ==
    [config |-> config, state |-> "Active",
     last_speech_time |-> t, last_keepalive_time |-> t,
     frames_sent |-> 0, frames_suppressed |-> 0]

\* KeepaliveCheck restarting the keepalive interval on every suppressed frame
KeepaliveCheck_restart(s, t) ==
    IF t - s.last_keepalive_time >= s.config.silence_keepalive_interval
    THEN [sup |-> [s EXCEPT !.last_keepalive_time = t,
                            !.frames_sent = @ + 1],
          action |-> ActSendSilence]
    ELSE [sup |-> [s EXCEPT !.last_keepalive_time = t,
                            !.frames_suppressed = @ + 1],
          action |-> ActSuppress]

\* KeepaliveCheck sending only once more than the interval has passed
KeepaliveCheck_strict(s, t) ==
    IF t - s.last_keepalive_time > s.config.silence_keepalive_interval
    THEN [sup |-> [s EXCEPT !.last_keepalive_time = t,
                            !.frames_sent = @ + 1],
          action |-> ActSendSilence]
    ELSE [sup |-> [s EXCEPT !.frames_suppressed = @ + 1],
          action |-> ActSuppress]

\* KeepaliveCheck that does not record the time of the keepalive it sends
KeepaliveCheck_nostamp(s, t) ==
    IF t - s.last_keepalive_time >= s.config.silence_keepalive_interval
    THEN [sup |-> [s EXCEPT !.frames_sent = @ + 1],
          action |-> ActSendSilence]
    ELSE [sup |-> [s EXCEPT !.frames_suppressed = @ + 1],
          action |-> ActSuppress]

\* the tail of process: "In suppressed state - check if time for keepalive"
KeepaliveCheck(s, t) ==
    IF t - s.last_keepalive_time >= s.config.silence_keepalive_interval
    THEN [sup |-> [s EXCEPT !.last_keepalive_time = t,
                            !.frames_sent = @ + 1],
          action |-> ActSendSilence]
    ELSE [sup |-> [s EXCEPT !.frames_suppressed = @ + 1],
          action |-> ActSuppress]

\* process that leaves the state as it is when the hangover has elapsed
process_no_transition(s, frame, t) ==
    LET has_speech == RmsAtLeast(frame, s.config.speech_threshold_rms)
    IN IF has_speech
       THEN [sup |-> [s EXCEPT !.state = "Active",
                               !.last_speech_time = t,
                               !.frames_sent = @ + 1],
             action |-> ActSend(frame)]
       ELSE IF s.state \in {"Active", "Hangover"}
            THEN IF t - s.last_speech_time > s.config.speech_hangover
                 THEN KeepaliveCheck(s, t)
                 ELSE [sup |-> [s EXCEPT !.state = "Hangover",
                                         !.frames_sent = @ + 1],
                       action |-> ActSend(frame)]
            ELSE KeepaliveCheck(s, t)

\* process that sends the frame itself as the keepalive of a Suppressed
\* suppressor and goes back to Hangover
process_keepalive_wakes(s, frame, t) ==
    LET has_speech == RmsAtLeast(frame, s.config.speech_threshold_rms)
        due == t - s.last_keepalive_time
                 >= s.config.silence_keepalive_interval
    IN IF has_speech
       THEN [sup |-> [s EXCEPT !.state = "Active",
                               !.last_speech_time = t,
                               !.frames_sent = @ + 1],
             action |-> ActSend(frame)]
       ELSE IF s.state \in {"Active", "Hangover"}
            THEN IF t - s.last_speech_time > s.config.speech_hangover
                 THEN KeepaliveCheck([s EXCEPT !.state = "Suppressed"], t)
                 ELSE [sup |-> [s EXCEPT !.state = "Hangover",
                                         !.frames_sent = @ + 1],
                       action |-> ActSend(frame)]
            ELSE IF due
                 THEN [sup |-> [s EXCEPT !.state = "Hangover",
                                         !.last_keepalive_time = t,
                                         !.frames_sent = @ + 1],
                       action |-> ActSend(frame)]
                 ELSE KeepaliveCheck(s, t)

\* process that restarts the hangover at every frame it sends
process_silence_prolongs(s, frame, t) ==
    LET has_speech == RmsAtLeast(frame, s.config.speech_threshold_rms)
    IN IF has_speech
       THEN [sup |-> [s EXCEPT !.state = "Active",
                               !.last_speech_time = t,
                               !.frames_sent = @ + 1],
             action |-> ActSend(frame)]
       ELSE IF s.state \in {"Active", "Hangover"}
            THEN IF t - s.last_speech_time > s.config.speech_hangover
                 THEN KeepaliveCheck([s EXCEPT !.state = "Suppressed"], t)
                 ELSE [sup |-> [s EXCEPT !.state = "Hangover",
                                         !.last_speech_time = t,
                                         !.frames_sent = @ + 1],
                       action |-> ActSend(frame)]
            ELSE KeepaliveCheck(s, t)

\* process ending the hangover as soon as speech_hangover has elapsed
process_hangover_exclusive(s, frame, t) ==
    LET has_speech == RmsAtLeast(frame, s.config.speech_threshold_rms)
    IN IF has_speech
       THEN [sup |-> [s EXCEPT !.state = "Active",
                               !.last_speech_time = t,
                               !.frames_sent = @ + 1],
             action |-> ActSend(frame)]
       ELSE IF s.state \in {"Active", "Hangover"}
            THEN IF t - s.last_speech_time >= s.config.speech_hangover
                 THEN KeepaliveCheck([s EXCEPT !.state = "Suppressed"], t)
                 ELSE [sup |-> [s EXCEPT !.state = "Hangover",
                                         !.frames_sent = @ + 1],
                       action |-> ActSend(frame)]
            ELSE KeepaliveCheck(s, t)

\* process testing the state before the speech: a Suppressed suppressor
\* answers by the keepalive rule whatever the frame holds
process_state_first(s, frame, t) ==
    LET has_speech == RmsAtLeast(frame, s.config.speech_threshold_rms)
    IN IF s.state = "Suppressed" THEN KeepaliveCheck(s, t)
       ELSE IF has_speech
       THEN [sup |-> [s EXCEPT !.state = "Active",
                               !.last_speech_time = t,
                               !.frames_sent = @ + 1],
             action |-> ActSend(frame)]
       ELSE IF t - s.last_speech_time > s.config.speech_hangover
            THEN KeepaliveCheck([s EXCEPT !.state = "Suppressed"], t)
            ELSE [sup |-> [s EXCEPT !.state = "Hangover",
                                    !.frames_sent = @ + 1],
                  action |-> ActSend(frame)]

\* SilenceSuppressor::process(frame), Instant::now() = t
process(s, frame, t) ==
    LET has_speech == RmsAtLeast(frame, s.config.speech_threshold_rms)
    IN IF has_speech
       THEN [sup |-> [s EXCEPT !.state = "Active",
                               !.last_speech_time = t,
                               !.frames_sent = @ + 1],
             action |-> ActSend(frame)]
       ELSE IF s.state \in {"Active", "Hangover"}
            THEN IF t - s.last_speech_time > s.config.speech_hangover
                 THEN KeepaliveCheck([s EXCEPT !.state = "Suppressed"], t)
                 ELSE [sup |-> [s EXCEPT !.state = "Hangover",
                                         !.frames_sent = @ + 1],
                       action |-> ActSend(frame)]
            ELSE KeepaliveCheck(s, t)

\* reset that leaves last_keepalive_time alone
reset_speech_only(s, t) ==
    [s EXCEPT !.state = "Active", !.last_speech_time = t]

\* reset that also clears the statistics
reset_clearing(s, t) ==
    [s EXCEPT !.state = "Active", !.last_speech_time = t,
              !.last_keepalive_time = t,
              !.frames_sent = 0, !.frames_suppressed = 0]

\* SilenceSuppressor::reset(), Instant::now() = t
reset(s, t) ==
    [s EXCEPT !.state = "Active", !.last_speech_time = t,
              !.last_keepalive_time = t]

\* SilenceSuppressor::stats
stats(s) == <<s.frames_sent, s.frames_suppressed>>

\* SilenceSuppressor::is_speech
is_speech(s) == s.state \in {"Active", "Hangover"}

(***************************************************************************)
(* streaming_resampler.rs                                                  *)
(* ratio and fractional_pos are f64 in the source.  Here they are exact    *)
(* fractions over the common denominator den = output_rate / gcd, which is *)
(* what the f64 arithmetic computes when the ratio is a dyadic number      *)
(* (8, 16, 24, 32, 48, 96 kHz to 16 kHz).                                  *)
(***************************************************************************)

RECURSIVE Gcd(_, _)
Gcd(a, b) == IF b = 0 THEN a ELSE Gcd(b, a % b)

\* StreamingResampler::new(input_sample_rate, output_sample_rate):
\* ratio = ratio_num / den
new(input_sample_rate, output_sample_rate) ==
    LET g == Gcd(input_sample_rate, output_sample_rate)
    IN [ratio_num |-> input_sample_rate \div g,
        den |-> output_sample_rate \div g,
        fractional_pos |-> 0,
        prev_sample |-> 0,
        initialized |-> FALSE]

\* n / d rounded toward zero, as the cast `as i16` rounds
TruncDiv(n, d) == IF n >= 0 THEN n \div d ELSE -((-n) \div d)

\* (interpolated * 32767.0).clamp(-32768.0, 32767.0) as i16, where
\* interpolated = n / d
ScaleToI16(n, d) ==
    IF n * 32767 >= 32767 * d THEN 32767
    ELSE IF n * 32767 <= -32768 * d THEN -32768
    ELSE TruncDiv(n * 32767, d)

\* the while loop of resample: pos is fractional_pos * den; the result is
\* the position the loop ends at, the samples pushed and whether the loop
\* was left through a break.  Every output sample records the index of its
\* sample_a (src; 0 is prev_sample).
RECURSIVE resample_loop(_, _, _, _)
resample_loop(r, input, pos, output) ==
    IF ~(pos < Len(input) * r.den)
    THEN [pos |-> pos, output |-> output, broke |-> FALSE]
    ELSE
      LET idx == pos \div r.den
          frac == pos % r.den
          use_prev == idx = 0 /\ frac * 1000 < r.den
      IN IF ~use_prev /\ ~(idx < Len(input))
         THEN [pos |-> pos, output |-> output, broke |-> TRUE]
         ELSE
           LET sample_a == IF use_prev THEN r.prev_sample ELSE input[idx + 1]
               sample_b == IF idx + 1 < Len(input) THEN input[idx + 2]
                           ELSE input[idx + 1]
               \* interpolated = sample_a + frac * (sample_b - sample_a)
               interp_num == sample_a * r.den + frac * (sample_b - sample_a)
               scaled == ScaleToI16(interp_num, SAMPLE_DEN * r.den)
               src == IF use_prev THEN 0 ELSE idx + 1
           IN resample_loop(r, input, pos + r.ratio_num,
                            Append(output, [val |-> scaled, src |-> src]))

\* resample carrying the end position over without taking off the length
\* of the chunk consumed
resample_nosubtract(r, input) ==
    IF Len(input) = 0 THEN [res |-> r, output |-> <<>>, broke |-> FALSE]
    ELSE
      LET r1 == IF ~r.initialized
                THEN [r EXCEPT !.prev_sample = input[1], !.initialized = TRUE]
                ELSE r
          loop == resample_loop(r1, input, r1.fractional_pos, <<>>)
      IN [res |-> [r1 EXCEPT
                     !.fractional_pos = loop.pos,
                     !.prev_sample = input[Len(input)]],
          output |-> loop.output, broke |-> loop.broke]

\* resample starting every chunk at position 0
resample_restart(r, input) ==
    IF Len(input) = 0 THEN [res |-> r, output |-> <<>>, broke |-> FALSE]
    ELSE
      LET r1 == IF ~r.initialized
                THEN [r EXCEPT !.prev_sample = input[1], !.initialized = TRUE]
                ELSE r
          loop == resample_loop(r1, input, 0, <<>>)
      IN [res |-> [r1 EXCEPT
                     !.fractional_pos = loop.pos - Len(input) * r1.den,
                     !.prev_sample = input[Len(input)]],
          output |-> loop.output, broke |-> loop.broke]

\* resample carrying the position one output period too far
resample_extra_step(r, input) ==
    IF Len(input) = 0 THEN [res |-> r, output |-> <<>>, broke |-> FALSE]
    ELSE
      LET r1 == IF ~r.initialized
                THEN [r EXCEPT !.prev_sample = input[1], !.initialized = TRUE]
                ELSE r
          loop == resample_loop(r1, input, r1.fractional_pos, <<>>)
      IN [res |-> [r1 EXCEPT
                     !.fractional_pos = loop.pos - Len(input) * r1.den
                                          + r1.ratio_num,
                     !.prev_sample = input[Len(input)]],
          output |-> loop.output, broke |-> loop.broke]

\* resample forgetting its carry-over when the chunk is empty
resample_empty_resets(r, input) ==
    IF Len(input) = 0
    THEN [res |-> [r EXCEPT !.fractional_pos = 0, !.prev_sample = 0,
                            !.initialized = FALSE],
          output |-> <<>>, broke |-> FALSE]
    ELSE
      LET r1 == IF ~r.initialized
                THEN [r EXCEPT !.prev_sample = input[1], !.initialized = TRUE]
                ELSE r
          loop == resample_loop(r1, input, r1.fractional_pos, <<>>)
      IN [res |-> [r1 EXCEPT
                     !.fractional_pos = loop.pos - Len(input) * r1.den,
                     !.prev_sample = input[Len(input)]],
          output |-> loop.output, broke |-> loop.broke]

\* StreamingResampler::resample(input): the new resampler and the output
resample(r, input) ==
    IF Len(input) = 0 THEN [res |-> r, output |-> <<>>, broke |-> FALSE]
    ELSE
      LET r1 == IF ~r.initialized
                THEN [r EXCEPT !.prev_sample = input[1], !.initialized = TRUE]
                ELSE r
          loop == resample_loop(r1, input, r1.fractional_pos, <<>>)
      IN [res |-> [r1 EXCEPT
                     !.fractional_pos = loop.pos - Len(input) * r1.den,
                     !.prev_sample = input[Len(input)]],
          output |-> loop.output, broke |-> loop.broke]

\* reset that leaves the resampler initialized
resampler_reset_initialized(r) ==
    [r EXCEPT !.fractional_pos = 0, !.prev_sample = 0]

\* StreamingResampler::reset
resampler_reset(r) ==
    [r EXCEPT !.fractional_pos = 0, !.prev_sample = 0, !.initialized = FALSE]

\* the i16 values of output samples
Vals(output) == [i \in 1..Len(output) |-> output[i].val]

(***************************************************************************)
(* The resampler fed one stream in chunks.                                 *)
(***************************************************************************)

\* input rates with a dyadic ratio to SAMPLE_RATE
ResRates == {8000, 16000, 24000, 48000}

\* sample values: 0.0, 0.5, 1.0 and -1.0
ResValues == {0, 2, 4, -4}

RECURSIVE SeqsUpTo(_, _)
SeqsUpTo(S, n) ==
    IF n = 0 THEN {<<>>}
    ELSE LET shorter == SeqsUpTo(S, n - 1)
         IN shorter \cup {Append(q, x) : q \in {t \in shorter : Len(t) = n - 1},
                                          x \in S}

\* no controller exists
PipeIdle ==
    /\ kind = "mic"
    /\ device_arg = "none"
    /\ stop_signal = FALSE
    /\ capture_thread = None
    /\ device_id = "none"
    /\ streams = <<>>
    /\ stream = None
    /\ workers = <<>>
    /\ ctl_pc = "idle"
    /\ ctl_hist = <<>>
    /\ sink = <<>>
    /\ pipe_now = 0
    /\ joined = {}
    /\ accepted = 0

\* the suppressor is not used
SupIdle ==
    /\ suppressor = SuppressorNew(ConfigMicrophone, 0)
    /\ now = 0
    /\ sup_op = "new"
    /\ sup_frame = <<>>
    /\ sup_action = ActSuppress
    /\ sup_prev = suppressor
    /\ processed = 0
    /\ phase = "free"
    /\ last_delivery = None
    /\ delivery_gap = None

ResInit ==
    /\ SupIdle
    /\ PipeIdle
    /\ AuxIdle
    /\ res_calls = <<>>
    /\ \E rate \in ResRates : resampler = new(rate, SAMPLE_RATE)
    /\ res_stream \in SeqsUpTo(ResValues, MaxStream)
    /\ res_fed = 0
    /\ res_out = <<>>
    /\ res_chunk = <<>>
    /\ fresh = <<>>
    /\ fresh_out = <<>>

\* the same call of resample on the resampler built at the latest reset
FreshCall(chunk) ==
    IF fresh = <<>> THEN UNCHANGED <<fresh, fresh_out>>
    ELSE LET f == resample(fresh[1], chunk)
         IN /\ fresh' = <<f.res>>
            /\ fresh_out' = fresh_out \o Vals(f.output)

\* one call of resample on the next n samples of the stream
ResChunk ==
    \E n \in 1..(Len(res_stream) - res_fed) :
       LET chunk == SubSeq(res_stream, res_fed + 1, res_fed + n)
           r == resample(resampler, chunk)
       IN /\ resampler' = r.res
          /\ res_out' = res_out \o Vals(r.output)
          /\ res_chunk' = chunk
          /\ res_calls' = Append(res_calls, [size |-> n,
                                             out |-> Len(r.output)])
          /\ res_fed' = res_fed + n
          /\ FreshCall(chunk)
          /\ UNCHANGED res_stream
          /\ UNCHANGED <<supVars, pipeVars, auxVars>>

\* one call of resample on an empty chunk
ResEmptyChunk ==
    LET r == resample(resampler, <<>>)
    IN /\ resampler' = r.res
       /\ res_out' = res_out \o Vals(r.output)
       /\ res_chunk' = <<>>
       /\ FreshCall(<<>>)
       /\ UNCHANGED <<res_stream, res_fed, res_calls>>
       /\ UNCHANGED <<supVars, pipeVars, auxVars>>

ResNext == ResChunk \/ ResEmptyChunk

SpecRes == ResInit /\ [][ResNext]_vars

\* the output of one resample call on the whole stream
WholeOutput ==
    Vals(resample([resampler EXCEPT !.fractional_pos = 0,
                                    !.prev_sample = 0,
                                    !.initialized = FALSE], res_stream).output)

(***************************************************************************)
(* Properties of the resampler.                                            *)
(***************************************************************************)

\* q1 and q2 are equal except possibly for the last sample of q2
EqualUpToLast(q1, q2) ==
    /\ Len(q1) <= Len(q2)
    /\ Len(q1) >= Len(q2) - 1
    /\ \A i \in 1..(Len(q2) - 1) : q1[i] = q2[i]

\* C3: once a stream was fed in non-empty chunks, the concatenation of the
\* outputs equals the output of one resample call on the whole stream,
\* except possibly for the last output sample.
C3_ChunkingIndependence ==
    (res_fed = Len(res_stream)) => EqualUpToLast(res_out, WholeOutput)

\* the stream holds one value, fed so far in chunks of one size
ConstantEqualChunks ==
    /\ \A i, j \in 1..Len(res_stream) : res_stream[i] = res_stream[j]
    /\ \A i, j \in 1..Len(res_calls) : res_calls[i].size = res_calls[j].size

\* the output lengths of consecutive calls differ by at most 1 and the
\* output samples by at most 1 LSB
LengthsAndValuesContinuous ==
    /\ \A i \in 1..(Len(res_calls) - 1) :
          /\ res_calls[i].out - res_calls[i + 1].out <= 1
          /\ res_calls[i + 1].out - res_calls[i].out <= 1
    /\ \A i, j \in 1..Len(res_out) : res_out[i] - res_out[j] <= 1

\* C18: a constant stream fed in equal-size chunks: the output lengths of
\* consecutive calls differ by at most 1, all output samples differ by at
\* most 1 LSB, and every call returns a non-empty output when the chunk is
\* at least as long as one output period (size * 16000 >= Fin).
C18_ConstantContinuity ==
    ConstantEqualChunks =>
      /\ LengthsAndValuesContinuous
      /\ \A i \in 1..Len(res_calls) :
            res_calls[i].size * resampler.den >= resampler.ratio_num
              => res_calls[i].out > 0

\* C18 as the specification states it: every call returns a non-empty
\* output whatever the chunk size
C18_EveryCallNonEmpty ==
    ConstantEqualChunks =>
      /\ LengthsAndValuesContinuous
      /\ \A i \in 1..Len(res_calls) : res_calls[i].out > 0

\* 0.5 at 24 kHz in two chunks of two samples: two outputs, then one
C18_Witness ==
    /\ ConstantEqualChunks
    /\ res_stream # <<>> /\ res_stream[1] = 2
    /\ resampler.ratio_num = 3 /\ resampler.den = 2
    /\ Len(res_calls) = 2
    /\ res_calls[1] = [size |-> 2, out |-> 2]
    /\ res_calls[2] = [size |-> 2, out |-> 1]
    /\ res_out = <<16383, 16383, 16383>>

\* C30: a resample call on an empty chunk returns no sample and leaves
\* fractional_pos, prev_sample and initialized as they were, so the calls
\* that follow return what they would have returned without it.
C30_EmptyChunkIsNoOp ==
    [][res_chunk' = <<>> => (resampler' = resampler /\ res_out' = res_out)]_vars

\* an empty chunk was given between two chunks, with a position carried
\* over
C30_Witness ==
    /\ res_chunk = <<>>
    /\ res_out # <<>>
    /\ res_fed < Len(res_stream)
    /\ resampler.initialized
    /\ resampler.fractional_pos > 0

\* clamp(round(n / d * 32767), -32768, 32767), round as f32::round: to the
\* nearest integer, halves away from zero
RoundToI16(n, d) ==
    IF n * 32767 >= 32767 * d THEN 32767
    ELSE IF n * 32767 <= -32768 * d THEN -32768
    ELSE IF n >= 0 THEN (2 * n * 32767 + d) \div (2 * d)
    ELSE -((2 * (-n) * 32767 + d) \div (2 * d))

\* the samples of one call as C32 states them: for every position
\* p = pos / den below the length of the chunk x, with i = floor(p) and
\* f = p - i, the rounded and clamped a + f * (b - a)
RECURSIVE RoundedSamples(_, _, _, _)
RoundedSamples(r, x, pos, out) ==
    IF pos >= Len(x) * r.den THEN out
    ELSE LET i == pos \div r.den
             f == pos % r.den
             prev == IF r.initialized THEN r.prev_sample ELSE x[1]
             a == IF i = 0 /\ f * 1000 < r.den THEN prev ELSE x[i + 1]
             b == IF i + 1 < Len(x) THEN x[i + 2] ELSE x[i + 1]
         IN RoundedSamples(r, x, pos + r.ratio_num,
                           Append(out, RoundToI16(a * r.den + f * (b - a),
                                                  SAMPLE_DEN * r.den)))

\* C32: every sample a resample call returns is
\* clamp(round((a + f * (b - a)) * 32767), -32768, 32767): the scaled value
\* is rounded to the nearest integer and saturates outside [-1, 1].
C32_RoundedAndClamped ==
    [][res_fed' > res_fed =>
         res_out' = res_out \o RoundedSamples(resampler, res_chunk',
                                              resampler.fractional_pos,
                                              <<>>)]_vars

\* C38: after every resample call the carried position is not negative,
\* after a call that returned a sample it is below the ratio, and no call
\* leaves its loop through one of the two breaks (the index it reads is an
\* index of the chunk).
C38_PositionInRange ==
    /\ [](resampler.fractional_pos >= 0)
    /\ [][Len(res_out') > Len(res_out)
            => resampler'.fractional_pos < resampler'.ratio_num]_vars
    /\ [][res_fed' > res_fed
            => ~resample(resampler, res_chunk').broke]_vars

\* a call at 48 kHz that returned a sample and left a position carried
\* over, after a call that returned none
C38_Witness ==
    /\ Len(res_calls) >= 3
    /\ res_calls[Len(res_calls) - 1].out = 0
    /\ res_calls[Len(res_calls)].out > 0
    /\ resampler.ratio_num = 3
    /\ resampler.fractional_pos > 0
    /\ resampler.fractional_pos < resampler.ratio_num

(***************************************************************************)
(* The resampler fed a stream, reset, and fed the rest of the stream.      *)
(***************************************************************************)

\* the rate new was given: ratio * output rate
InputRate(r) == (r.ratio_num * SAMPLE_RATE) \div r.den

ResetInit ==
    /\ SupIdle
    /\ PipeIdle
    /\ AuxIdle
    /\ res_calls = <<>>
    /\ \E rate \in ResRates : resampler = new(rate, SAMPLE_RATE)
    /\ res_stream \in SeqsUpTo(ResValues, ResetStream)
    /\ res_fed = 0
    /\ res_out = <<>>
    /\ res_chunk = <<>>
    /\ fresh = <<>>
    /\ fresh_out = <<>>

\* one call of reset; from here on the outputs are collected anew, next to
\* those of a resampler constructed now with the same rates
ResReset ==
    /\ resampler' = resampler_reset(resampler)
    /\ fresh' = <<new(InputRate(resampler), SAMPLE_RATE)>>
    /\ res_out' = <<>>
    /\ fresh_out' = <<>>
    /\ res_calls' = <<>>
    /\ UNCHANGED <<res_stream, res_fed, res_chunk>>
    /\ UNCHANGED <<supVars, pipeVars, auxVars>>

SpecReset == ResetInit /\ [][ResChunk \/ ResEmptyChunk \/ ResReset]_vars

\* C31: after reset, whatever was fed before it, the outputs of the calls
\* that follow are those of a freshly constructed resampler with the same
\* rates given the same chunks.
C31_ResetClearsCarryOver ==
    fresh # <<>> => res_out = fresh_out

\* a reset after a chunk that left a position and a non-zero sample carried
\* over, and output returned since
C31_Witness ==
    /\ fresh # <<>>
    /\ res_out # <<>>
    /\ res_fed = Len(res_stream)
    /\ res_stream[1] # 0
    /\ \E k \in 1..(Len(res_stream) - 1) :
          /\ k % 3 # 0
          /\ res_stream[k] # 0
          /\ res_stream[k + 1] # 0
          /\ res_stream[k + 1] # res_stream[k]
          /\ Len(res_calls) = 1
          /\ res_calls[1].size = Len(res_stream) - k
          /\ resampler.ratio_num = 3

(***************************************************************************)
(* The suppressor driven frame by frame.                                   *)
(***************************************************************************)

\* frames offered to process: sample values at the stride and off it
SupFrames ==
    { [i \in 1..FRAME_SAMPLES |-> 0],
      [i \in 1..FRAME_SAMPLES |-> 100],
      [i \in 1..FRAME_SAMPLES |-> 99],
      [i \in 1..FRAME_SAMPLES |-> IF i = 2 THEN 32767 ELSE 0] }

\* milliseconds between two reads of the clock
Deltas == {0, 20, 100, 201}

SilentFrames(config) ==
    {f \in SupFrames : ~RmsAtLeast(f, config.speech_threshold_rms)}

\* the resampler is not used
ResIdle ==
    /\ resampler = new(SAMPLE_RATE, SAMPLE_RATE)
    /\ res_stream = <<>>
    /\ res_fed = 0
    /\ res_out = <<>>
    /\ res_chunk = <<>>
    /\ res_calls = <<>>
    /\ fresh = <<>>
    /\ fresh_out = <<>>

SupInit ==
    /\ ResIdle
    /\ PipeIdle
    /\ AuxIdle
    /\ \E config \in SupConfigs : suppressor = SuppressorNew(config, 0)
    /\ now = 0
    /\ sup_op = "new"
    /\ sup_frame = <<>>
    /\ sup_action = ActSuppress
    /\ sup_prev = suppressor
    /\ processed = 0
    /\ phase = "free"
    /\ last_delivery = None
    /\ delivery_gap = None

\* one call of process at time t
SupCall(frame, t) ==
    LET r == process(suppressor, frame, t)
    IN /\ suppressor' = r.sup
       /\ sup_action' = r.action
       /\ sup_frame' = frame
       /\ sup_prev' = suppressor
       /\ sup_op' = "process"
       /\ now' = t
       /\ processed' = processed + 1

SupProcess ==
    /\ phase = "free"
    /\ processed < MaxFree
    /\ \E frame \in SupFrames, dt \in Deltas :
          /\ now + dt <= MaxTime
          /\ SupCall(frame, now + dt)
    /\ UNCHANGED <<phase, last_delivery, delivery_gap>>
    /\ UNCHANGED <<resVars, pipeVars, auxVars>>

\* (a reset that follows a reset only moves the two timestamps again)
SupReset ==
    /\ phase = "free"
    /\ sup_op # "reset"
    /\ \E dt \in Deltas :
          /\ now + dt <= MaxTime
          /\ now' = now + dt
          /\ suppressor' = reset(suppressor, now + dt)
    /\ sup_prev' = suppressor
    /\ sup_op' = "reset"
    /\ UNCHANGED <<sup_frame, sup_action, processed, phase, last_delivery,
                   delivery_gap>>
    /\ UNCHANGED <<resVars, pipeVars, auxVars>>

\* from here on every frame is silent and frames are FRAME_MS apart
SupBeginSilence ==
    /\ phase = "free"
    /\ phase' = "silence"
    /\ UNCHANGED <<suppressor, now, sup_op, sup_frame, sup_action, sup_prev,
                   processed, last_delivery, delivery_gap>>
    /\ UNCHANGED <<resVars, pipeVars, auxVars>>

SupSilentFrame ==
    /\ phase = "silence"
    /\ processed < MaxFrames
    /\ now + FRAME_MS <= MaxTime
    /\ \E frame \in SilentFrames(suppressor.config) :
          SupCall(frame, now + FRAME_MS)
    /\ LET delivered == sup_action'.kind \in {"Send", "SendSilence"}
       IN /\ last_delivery' = IF delivered THEN now' ELSE last_delivery
          /\ delivery_gap' = IF delivered /\ last_delivery # None
                             THEN now' - last_delivery ELSE delivery_gap
    /\ UNCHANGED phase
    /\ UNCHANGED <<resVars, pipeVars, auxVars>>

SupNext == SupProcess \/ SupReset \/ SupBeginSilence \/ SupSilentFrame

SpecSup == SupInit /\ [][SupNext]_vars

(***************************************************************************)
(* Properties of the suppressor.                                           *)
(***************************************************************************)

LatestFrameHasSpeech ==
    /\ sup_op = "process"
    /\ RmsAtLeast(sup_frame, suppressor.config.speech_threshold_rms)

\* C1: a frame whose RMS is at least speech_threshold_rms is returned as
\* Send carrying that same frame, and leaves the suppressor Active with
\* last_speech_time = now, whatever the state and the timestamps were.
C1_SpeechNeverDelayed ==
    LatestFrameHasSpeech =>
        /\ sup_action = ActSend(sup_frame)
        /\ suppressor.state = "Active"
        /\ suppressor.last_speech_time = now

\* a speech frame was processed by a Suppressed suppressor whose keepalive
\* was not due
C1_Witness ==
    /\ LatestFrameHasSpeech
    /\ sup_prev.state = "Suppressed"
    /\ now - sup_prev.last_keepalive_time
           < suppressor.config.silence_keepalive_interval
    /\ sup_action.kind = "Send"

MaxDeliveryGap == suppressor.config.silence_keepalive_interval + FRAME_MS

\* C2: while silent frames arrive one per FRAME_MS, the sink is never left
\* without a frame for more than silence_keepalive_interval + FRAME_MS
\* after a delivery, so two consecutive deliveries are at most that far
\* apart.
C2_TimingContinuity ==
    (phase = "silence" /\ last_delivery # None) =>
        /\ now - last_delivery <= MaxDeliveryGap
        /\ delivery_gap # None => delivery_gap <= MaxDeliveryGap

\* two keepalive frames were delivered a whole keepalive interval apart
C2_Witness ==
    /\ phase = "silence"
    /\ sup_action.kind = "SendSilence"
    /\ delivery_gap # None
    /\ delivery_gap >= suppressor.config.silence_keepalive_interval

\* C6: frames_sent and frames_suppressed never decrease, a process call
\* adds one to exactly one of them, and their sum is the number of frames
\* processed since construction.
C6_MonotonicCounters ==
    /\ [](suppressor.frames_sent + suppressor.frames_suppressed = processed)
    /\ [][/\ suppressor'.frames_sent >= suppressor.frames_sent
          /\ suppressor'.frames_suppressed >= suppressor.frames_suppressed
          /\ processed' = processed + 1 =>
                \/ /\ suppressor'.frames_sent = suppressor.frames_sent + 1
                   /\ suppressor'.frames_suppressed
                         = suppressor.frames_suppressed
                \/ /\ suppressor'.frames_sent = suppressor.frames_sent
                   /\ suppressor'.frames_suppressed
                         = suppressor.frames_suppressed + 1]_vars

\* frames were sent and suppressed, and a reset happened after them
C6_Witness ==
    /\ sup_op = "reset"
    /\ suppressor.frames_sent > 0
    /\ suppressor.frames_suppressed > 0

(***************************************************************************)
(* lib.rs, microphone.rs, speaker/: one capture controller with its        *)
(* source streams, their rings and OS callbacks, and the DSP workers it    *)
(* spawned.  The ring is the ringbuf crate's SPSC queue: push_slice        *)
(* accepts the prefix that fits and publishes it at once, try_pop takes    *)
(* the oldest sample.                                                      *)
(***************************************************************************)

\* input rates of the sources
PipeRates == {16000}

\* sizes of the buffers the OS hands to a callback
CallbackSizes == {3}

\* sample values the OS captures: 0.0 and 1.0
PipeValues == {0, SAMPLE_DEN}

\* milliseconds between two reads of the clock by a worker
PipeDeltas == {0, 301}

\* capacity of the ring a source allocates
\* (microphone.rs: RING_BUFFER_SAMPLES; core_audio.rs, sck.rs: buffer_size)
RingCapacity(backend) ==
    IF backend = "mic" THEN RING_BUFFER_SAMPLES ELSE SPEAKER_BUFFER_SIZE

\* MicrophoneStream / core_audio::SpeakerStream / sck::SpeakerStream
\* together with the state its callback owns
NewStream(backend, rate) ==
    [backend |-> backend,
     alive |-> TRUE,                \* not dropped yet
     ring |-> <<>>,                 \* samples pushed and not popped yet
     consumer |-> TRUE,             \* consumer: Some(..)
     sample_rate |-> rate,
     is_running |-> FALSE,          \* microphone only
     consecutive_drops |-> 0,       \* audio tap only
     should_terminate |-> FALSE,    \* audio tap only
     drop_run |-> 0,                \* callbacks in a row that dropped samples
     pending |-> 0,                 \* samples the running invocation of a
                                    \* per-sample callback has yet to offer
     dropped |-> 0]                 \* samples that invocation has dropped

\* the state a DSP thread owns (the closure of thread::spawn)
NewWorker(s, rate, config, t) ==
    [pc |-> "check",
     consumer |-> s,                \* the stream whose ring consumer it holds
     resampler |-> new(rate, SAMPLE_RATE),
     frame_buffer |-> <<>>,
     raw_batch |-> <<>>,
     suppressor |-> SuppressorNew(config, t),
     out_count |-> 0,               \* samples the resampler returned so far
     prev_id |-> 0,                 \* capture id of resampler.prev_sample
     fed |-> <<>>]                  \* capture ids given to the resampler

\* speaker/macos.rs SpeakerInput::new(device_id): the backend opened, given
\* whether the audio tap and the screen capture can be opened
SpeakerInputNew(dev, tap_ok, sck_ok) ==
    LET force_sck == dev = "sck"
    IN IF ~force_sck /\ tap_ok THEN "tap"
       ELSE IF sck_ok THEN "sck"
       ELSE "err"

\* the Drop impls of the speaker streams
DropStream(st) ==
    [st EXCEPT !.alive = FALSE,
               !.should_terminate = IF st.backend = "tap" THEN TRUE ELSE @]

PipeInit ==
    /\ SupIdle
    /\ ResIdle
    /\ AuxIdle
    /\ kind \in {"mic", "sys"}
    /\ stop_signal = FALSE
    /\ capture_thread = None
    /\ device_id \in (IF kind = "mic" THEN {"none"} ELSE {"none", "sck"})
    /\ device_arg = device_id
    /\ \E rate \in PipeRates :
          streams = IF kind = "mic" THEN <<NewStream("mic", rate)>> ELSE <<>>
    /\ stream = IF kind = "mic" THEN 1 ELSE None
    /\ workers = <<>>
    /\ ctl_pc = "idle"
    /\ ctl_hist = <<>>
    /\ sink = <<>>
    /\ pipe_now = 0
    /\ joined = {}
    /\ accepted = 0

Spawn(s, rate, config) ==
    /\ workers' = Append(workers, NewWorker(s, rate, config, pipe_now))
    /\ capture_thread' = Len(workers) + 1

Returned(op, result) ==
    ctl_hist' = Append(ctl_hist, [op |-> op, result |-> result])

\* the caller of SpecPipe stops a capture before it starts it again
CallerMayStart == capture_thread = None

\* MicrophoneCapture::start
MicStartCall ==
    /\ kind = "mic"
    /\ ctl_pc = "idle"
    /\ Len(ctl_hist) < MaxCalls
    /\ stop_signal' = FALSE
    /\ \E play_ok \in BOOLEAN :
         IF ~play_ok
         THEN /\ Returned("start", "err_play")
              /\ UNCHANGED <<streams, workers, capture_thread>>
         ELSE IF streams[stream].consumer
         THEN /\ streams' = [streams EXCEPT ![stream].is_running = TRUE,
                                            ![stream].consumer = FALSE]
              /\ Spawn(stream, streams[stream].sample_rate, ConfigMicrophone)
              /\ Returned("start", "ok")
         ELSE /\ streams' = [streams EXCEPT ![stream].is_running = TRUE]
              /\ Returned("start", "err_consumer")
              /\ UNCHANGED <<workers, capture_thread>>
    /\ UNCHANGED <<kind, device_arg>>
    /\ UNCHANGED <<device_id, stream, ctl_pc, sink, pipe_now, joined,
                   accepted>>
    /\ UNCHANGED <<supVars, resVars, auxVars>>

\* MicrophoneCapture::start called with no thread running
MicStart == CallerMayStart /\ MicStartCall

\* SystemAudioCapture::start
SysStartCall ==
    /\ kind = "sys"
    /\ ctl_pc = "idle"
    /\ Len(ctl_hist) < MaxCalls
    /\ stop_signal' = FALSE
    /\ device_id' = "none"
    /\ \E tap_ok \in BOOLEAN, sck_ok \in BOOLEAN,
          tap_ok2 \in BOOLEAN, sck_ok2 \in BOOLEAN,
          tap_start_ok \in BOOLEAN, rate \in PipeRates :
         LET first == SpeakerInputNew(device_id, tap_ok, sck_ok)
             \* "Failed: ... Trying default..."
             backend == IF first # "err" THEN first
                        ELSE SpeakerInputNew("none", tap_ok2, sck_ok2)
             input_sample_rate == IF backend = "sck" THEN 48000 ELSE rate
             dropped == IF stream = None THEN streams
                        ELSE [streams EXCEPT ![stream] = DropStream(@)]
         IN IF backend = "err"
            THEN /\ Returned("start", "err_open")
                 /\ UNCHANGED <<streams, stream, workers, capture_thread>>
            ELSE IF backend = "tap" /\ ~tap_start_ok
            \* input.stream(): expect("Failed to start CoreAudio tap")
            THEN /\ Returned("start", "panic")
                 /\ UNCHANGED <<streams, stream, workers, capture_thread>>
            ELSE /\ streams' = Append(dropped,
                        [NewStream(backend, input_sample_rate)
                            EXCEPT !.consumer = FALSE])
                 /\ stream' = Len(streams) + 1
                 /\ Spawn(Len(streams) + 1, input_sample_rate,
                          ConfigSystemAudio)
                 /\ Returned("start", "ok")
    /\ UNCHANGED <<kind, device_arg>>
    /\ UNCHANGED <<ctl_pc, sink, pipe_now, joined, accepted>>
    /\ UNCHANGED <<supVars, resVars, auxVars>>

\* SystemAudioCapture::start called with no thread running
SysStart == CallerMayStart /\ SysStartCall

\* the end of stop, after the join: MicrophoneCapture pauses the input
\* (the pause of the OS stream succeeding; MicPause has its failure),
\* SystemAudioCapture drops the stream
StopRelease ==
    IF kind = "mic"
    THEN /\ streams' = [streams EXCEPT ![stream].is_running = FALSE]
         /\ UNCHANGED stream
    ELSE /\ streams' = IF stream = None THEN streams
                       ELSE [streams EXCEPT ![stream] = DropStream(@)]
         /\ stream' = None

\* a join that does not wait for the thread
JoinReady_nowait(w) == TRUE

\* handle.join() returns once the thread has ended
JoinReady(w) == workers[w].pc = "done"

\* stop unwrapping the join handle: it fails when no thread is running
StopWithoutThread_unwrap == "err_not_running"

\* "if let Some(handle) = self.capture_thread.take()": stop with no thread
\* to join skips the join and goes on
StopWithoutThread == "ok"

\* MicrophoneCapture::stop / SystemAudioCapture::stop up to the join
Stop ==
    /\ ctl_pc = "idle"
    /\ Len(ctl_hist) < MaxCalls
    /\ stop_signal' = TRUE
    /\ IF capture_thread = None
       THEN /\ StopRelease
            /\ Returned("stop", StopWithoutThread)
            /\ UNCHANGED <<ctl_pc, capture_thread>>
       ELSE /\ ctl_pc' = "joining"
            /\ UNCHANGED <<streams, stream, ctl_hist, capture_thread>>
    /\ UNCHANGED <<kind, device_arg>>
    /\ UNCHANGED <<device_id, workers, sink, pipe_now, joined, accepted>>
    /\ UNCHANGED <<supVars, resVars, auxVars>>

\* stop from the return of handle.join() on
StopJoin ==
    /\ ctl_pc = "joining"
    /\ JoinReady(capture_thread)
    /\ joined' = joined \cup {capture_thread}
    /\ capture_thread' = None
    /\ StopRelease
    /\ Returned("stop", "ok")
    /\ ctl_pc' = "idle"
    /\ UNCHANGED <<kind, device_arg>>
    /\ UNCHANGED <<stop_signal, device_id, workers, sink, pipe_now,
                   accepted>>
    /\ UNCHANGED <<supVars, resVars, auxVars>>

Min(a, b) == IF a <= b THEN a ELSE b

\* the OS invokes the callback of stream s with n samples of value v
\* captured at the given rate: microphone.rs build_input_stream (f32,
\* mono), core_audio.rs proc (which publishes the rate of the device in
\* current_sample_rate) and process_audio_data, sck.rs
\* impl_stream_did_output_sample_buf
CallbackAt(s, rate) ==
    LET st == streams[s]
    IN /\ st.alive
       /\ st.backend = "mic" => st.is_running
       /\ st.drop_run <= DROP_LIMIT
       /\ \E n \in CallbackSizes, v \in PipeValues :
            LET room == RingCapacity(st.backend) - Len(st.ring)
                pushed == Min(n, room)
                data == [i \in 1..pushed |->
                           [id |-> accepted + i, v |-> v, rate |-> rate]]
                consecutive == st.consecutive_drops + 1
            IN /\ accepted + pushed <= MaxAccepted
               /\ accepted' = accepted + pushed
               /\ streams' = [streams EXCEPT ![s] =
                    [st EXCEPT
                       !.ring = st.ring \o data,
                       !.sample_rate = rate,
                       !.drop_run = IF pushed < n THEN @ + 1 ELSE 0,
                       !.consecutive_drops =
                           IF st.backend # "tap" THEN @
                           ELSE IF pushed < n THEN consecutive ELSE 0,
                       !.should_terminate =
                           IF st.backend = "tap" /\ pushed < n
                              /\ consecutive > DROP_LIMIT
                           THEN TRUE ELSE @]]
       /\ UNCHANGED <<kind, device_arg>>
       /\ UNCHANGED <<stop_signal, capture_thread, device_id, stream,
                      workers, ctl_pc, ctl_hist, sink, pipe_now, joined>>
       /\ UNCHANGED <<supVars, resVars, auxVars>>

\* a callback of a source whose rate stays what it was when it was opened
Callback(s) == CallbackAt(s, streams[s].sample_rate)

WorkerUnchanged ==
    /\ UNCHANGED <<kind, device_arg>>
    /\ UNCHANGED <<stop_signal, capture_thread, device_id, stream,
                   ctl_pc, ctl_hist, joined, accepted>>
    /\ UNCHANGED <<supVars, resVars, auxVars>>

\* DSP loop: "if stop_signal.load(Ordering::Relaxed) { break; }"
WCheck(w) ==
    /\ workers[w].pc = "check"
    /\ workers' = [workers EXCEPT ![w].pc =
                      IF stop_signal THEN "done" ELSE "drain"]
    /\ UNCHANGED <<streams, sink, pipe_now>>
    /\ WorkerUnchanged

\* WPop draining until the ring is empty, however long the batch gets
WPop_nolimit(w) ==
    LET wk == workers[w]
        ring == streams[wk.consumer].ring
    IN /\ wk.pc = "drain"
       /\ IF ring = <<>>
          THEN /\ workers' = [workers EXCEPT ![w].pc = "resample"]
               /\ UNCHANGED streams
          ELSE /\ streams' = [streams EXCEPT ![wk.consumer].ring = Tail(ring)]
               /\ workers' = [workers EXCEPT
                     ![w].raw_batch = Append(@, Head(ring))]
       /\ UNCHANGED <<sink, pipe_now>>
       /\ WorkerUnchanged

\* DSP loop, 1: one turn of "while let Some(sample) = consumer.try_pop()"
WPop(w) ==
    LET wk == workers[w]
        ring == streams[wk.consumer].ring
    IN /\ wk.pc = "drain"
       /\ IF ring = <<>>
          THEN /\ workers' = [workers EXCEPT ![w].pc = "resample"]
               /\ UNCHANGED streams
          ELSE /\ streams' = [streams EXCEPT ![wk.consumer].ring = Tail(ring)]
               /\ workers' = [workers EXCEPT
                     ![w].raw_batch = Append(@, Head(ring)),
                     ![w].pc = IF Len(wk.raw_batch) + 1 >= DRAIN_BATCH
                               THEN "resample" ELSE "drain"]
       /\ UNCHANGED <<sink, pipe_now>>
       /\ WorkerUnchanged

\* DSP loop, 2: resample the batch and extend the frame buffer
\* (r is what resampler.resample(&raw_batch) returns)
WResample(w) ==
    /\ workers[w].pc = "resample"
    /\ IF workers[w].raw_batch # <<>>
       THEN LET wk == workers[w]
                batch == wk.raw_batch
                first_prev == IF wk.resampler.initialized THEN wk.prev_id
                              ELSE batch[1].id
                resampled(r) == [k \in 1..Len(r.output) |->
                                [n |-> wk.out_count + k,
                                 src |-> IF r.output[k].src = 0
                                         THEN first_prev
                                         ELSE batch[r.output[k].src].id,
                                 val |-> r.output[k].val]]
            IN \E r \in {resample(workers[w].resampler,
                                   [i \in 1..Len(workers[w].raw_batch) |->
                                      workers[w].raw_batch[i].v])} :
                 workers' = [workers EXCEPT
                   ![w].resampler = r.res,
                   ![w].frame_buffer = @ \o resampled(r),
                   ![w].raw_batch = <<>>,
                   ![w].out_count = @ + Len(r.output),
                   ![w].prev_id = batch[Len(batch)].id,
                   ![w].fed = @ \o [i \in 1..Len(batch) |-> batch[i].id],
                   ![w].pc = "frames"]
       ELSE workers' = [workers EXCEPT ![w].pc = "frames"]
    /\ UNCHANGED <<streams, sink, pipe_now>>
    /\ WorkerUnchanged

\* TakeFrame detaching whatever the buffer holds, a short frame included
TakeFrame_partial(buf) ==
    IF Len(buf) > 0
    THEN [has |-> TRUE, frame |-> SubSeq(buf, 1, Min(FRAME_SAMPLES, Len(buf))),
          rest |-> SubSeq(buf, FRAME_SAMPLES + 1, Len(buf))]
    ELSE [has |-> FALSE, frame |-> <<>>, rest |-> buf]

\* TakeFrame copying the frame and removing only its first sample
TakeFrame_overlap(buf) ==
    IF Len(buf) >= FRAME_SAMPLES
    THEN [has |-> TRUE, frame |-> SubSeq(buf, 1, FRAME_SAMPLES),
          rest |-> Tail(buf)]
    ELSE [has |-> FALSE, frame |-> <<>>, rest |-> buf]

\* "while frame_buffer.len() >= FRAME_SAMPLES": whether a frame is
\* detached, the frame and what stays in the buffer
TakeFrame(buf) ==
    IF Len(buf) >= FRAME_SAMPLES
    THEN [has |-> TRUE, frame |-> SubSeq(buf, 1, FRAME_SAMPLES),
          rest |-> SubSeq(buf, FRAME_SAMPLES + 1, Len(buf))]
    ELSE [has |-> FALSE, frame |-> <<>>, rest |-> buf]

\* tsfn.call(audio, NonBlocking): one sink invocation by worker w
\* (tags: where the samples of the processed frame came from)
Deliver(w, kind_, samples, tags) ==
    sink' = Append(sink, [w |-> w, kind |-> kind_, samples |-> samples,
                          tags |-> tags, late |-> w \in joined])

\* DSP loop, 3 and 4: one turn of the frame loop, or the sleep that ends
\* the iteration
WFrame(w) ==
    LET wk == workers[w]
        t == TakeFrame(wk.frame_buffer)
        frame == [i \in 1..Len(t.frame) |-> t.frame[i].val]
        tags == [i \in 1..Len(t.frame) |->
                    [n |-> t.frame[i].n, src |-> t.frame[i].src,
                     val |-> t.frame[i].val]]
    IN /\ wk.pc = "frames"
       /\ IF t.has
          THEN \E dt \in PipeDeltas :
                 LET p == process(wk.suppressor, frame, pipe_now + dt)
                 IN /\ pipe_now + dt <= MaxTime
                    /\ pipe_now' = pipe_now + dt
                    /\ workers' = [workers EXCEPT
                          ![w].frame_buffer = t.rest,
                          ![w].suppressor = p.sup]
                    /\ CASE p.action.kind = "Send" ->
                               Deliver(w, "Send", p.action.frame, tags)
                         [] p.action.kind = "SendSilence" ->
                               Deliver(w, "SendSilence",
                                   generate_silence_frame(FRAME_SAMPLES), tags)
                         [] p.action.kind = "Suppress" ->
                               UNCHANGED sink
          ELSE /\ workers' = [workers EXCEPT ![w].pc = "check"]
               /\ UNCHANGED <<sink, pipe_now>>
       /\ UNCHANGED streams
       /\ WorkerUnchanged

WorkerStep(w) ==
    /\ w \in 1..Len(workers)
    /\ WCheck(w) \/ WPop(w) \/ WResample(w) \/ WFrame(w)

PipeNext ==
    \/ MicStart
    \/ SysStart
    \/ Stop
    \/ StopJoin
    \/ \E s \in 1..Len(streams) : Callback(s)
    \/ \E w \in 1..Len(workers) : WCheck(w)
    \/ \E w \in 1..Len(workers) : WPop(w)
    \/ \E w \in 1..Len(workers) : WResample(w)
    \/ \E w \in 1..Len(workers) : WFrame(w)

SpecPipe == PipeInit /\ [][PipeNext]_vars

\* the OS schedules the running DSP thread (start is called with no thread
\* running, so there is one at most) and the controller thread in stop
SpecPipeFair ==
    /\ PipeInit
    /\ [][PipeNext]_vars
    /\ WF_vars(\E w \in 1..Len(workers) : WorkerStep(w))
    /\ WF_vars(StopJoin)

(***************************************************************************)
(* Properties of the capture pipeline.                                     *)
(***************************************************************************)

Workers == 1..Len(workers)

\* the sink invocations of worker w that carry audio, in order
RECURSIVE SendTags(_, _)
SendTags(w, log) ==
    IF log = <<>> THEN <<>>
    ELSE IF Head(log).w = w /\ Head(log).kind = "Send"
         THEN Head(log).tags \o SendTags(w, Tail(log))
         ELSE SendTags(w, Tail(log))

SendsOf(w) == {i \in 1..Len(sink) : sink[i].w = w /\ sink[i].kind = "Send"}

\* C4: every sink invocation carries exactly FRAME_SAMPLES samples; what is
\* left in a frame buffer when a worker stops is never delivered.
C4_WholeFrames ==
    \A i \in 1..Len(sink) : Len(sink[i].samples) = FRAME_SAMPLES

\* a worker that delivered audio ended with a partial frame in its buffer
C4_Witness ==
    \E w \in Workers :
       /\ workers[w].pc = "done"
       /\ Len(workers[w].frame_buffer) > 0
       /\ Len(workers[w].frame_buffer) < FRAME_SAMPLES
       /\ SendsOf(w) # {}

Ids(samples) == [i \in 1..Len(samples) |-> samples[i].id]

StrictlyIncreasing(q) == \A i \in 1..(Len(q) - 1) : q[i] < q[i + 1]

\* C5: a worker gives the resampler the samples of its ring in the order
\* the callback pushed them, each once, and the samples of its Send frames
\* are resampler outputs in the order the resampler returned them, each
\* at most once, so never out of capture order.
C5_CaptureOrder ==
    \A w \in Workers :
       LET wk == workers[w]
           tags == SendTags(w, sink)
       IN /\ StrictlyIncreasing(wk.fed \o Ids(wk.raw_batch)
                                 \o Ids(streams[wk.consumer].ring))
          /\ \A i \in 1..(Len(tags) - 1) :
                /\ tags[i].n < tags[i + 1].n
                /\ tags[i].src <= tags[i + 1].src
          /\ \A i \in 1..Len(tags) :
                /\ tags[i].n <= wk.out_count
                /\ \E j \in 1..Len(wk.fed) : wk.fed[j] = tags[i].src

\* a worker delivered two audio frames out of more than one batch and
\* holds the start of a third
C5_Witness ==
    \E w \in Workers :
       /\ Cardinality(SendsOf(w)) >= 2
       /\ Len(workers[w].fed) > DRAIN_BATCH
       /\ workers[w].frame_buffer # <<>>

\* C7: once more than DROP_LIMIT consecutive callbacks dropped samples,
\* the terminate flag of the stream is set, and the worker that reads the
\* ring leaves its loop at its next stop check.
C7_SustainedOverflowTerminates ==
    /\ [](\A s \in 1..Len(streams) :
            streams[s].drop_run > DROP_LIMIT => streams[s].should_terminate)
    /\ [][\A w \in Workers :
            (/\ workers[w].pc = "check"
             /\ workers'[w].pc # "check"
             /\ streams[workers[w].consumer].drop_run > DROP_LIMIT)
            => workers'[w].pc = "done"]_vars

LastCall == ctl_hist[Len(ctl_hist)]

\* the latest call is a start that follows a successful start and a stop
Restarted ==
    /\ Len(ctl_hist) >= 3
    /\ LastCall.op = "start"
    /\ \E i, j \in 1..(Len(ctl_hist) - 1) :
          /\ i < j
          /\ ctl_hist[i] = [op |-> "start", result |-> "ok"]
          /\ ctl_hist[j].op = "stop"

\* start failed because the source could not be opened, started or played
SourceFailed == LastCall.result \in {"err_play", "err_open", "panic"}

\* C8: a start that follows start and stop succeeds (when the source can
\* be opened) and its worker holds the consumer of the ring the callback
\* of the controller's stream pushes into.
C8_RestartWorks ==
    (Restarted /\ ~SourceFailed) =>
        /\ LastCall.result = "ok"
        /\ capture_thread # None
        /\ workers[capture_thread].consumer = stream
        /\ streams[stream].alive

C10_StopTerminatesWorker ==
    /\ []<>(ctl_pc = "idle")
    /\ [][(ctl_pc = "joining" /\ ctl_pc' = "idle")
            => (/\ workers[capture_thread].pc = "done"
                /\ capture_thread \in joined')]_vars
    /\ [](\A w \in joined : workers[w].pc = "done")
    /\ [](\A i \in 1..Len(sink) : ~sink[i].late)

\* stop joined a worker that had delivered frames and left samples behind
C10_Witness ==
    \E w \in joined :
       /\ workers[w].pc = "done"
       /\ \E i \in 1..Len(sink) : sink[i].w = w
       /\ streams[workers[w].consumer].ring # <<>>
       /\ ctl_pc = "idle"

(***************************************************************************)
(* One OS callback, step by step: microphone.rs build_input_stream,        *)
(* core_audio.rs process_audio_data, sck.rs                                *)
(* impl_stream_did_output_sample_buf.  cb_effects collects the kinds of    *)
(* operation an invocation performs: "atomic", "push", "lock", "io".       *)
(* println! and eprintln! write to the standard streams under their lock,  *)
(* which any other thread that prints holds meanwhile.                     *)
(***************************************************************************)

CbOthersUnchanged == UNCHANGED <<supVars, resVars, pipeVars, sckVars>>

CbInit ==
    /\ SupIdle
    /\ ResIdle
    /\ PipeIdle
    /\ SckIdle
    /\ cb_backend \in {"mic", "tap", "sck"}
    /\ cb_pc = "idle"
    /\ cb_effects = {}
    /\ log_counter = 0
    /\ cb_drops = 0
    /\ cb_terminate = FALSE
    /\ has_data = FALSE
    /\ stdout_owner = "none"

CbStay(changed) ==
    /\ \A v \in {"pc", "effects", "log", "drops", "term", "data", "out"}
                \ changed :
          CASE v = "pc" -> cb_pc' = cb_pc
            [] v = "effects" -> cb_effects' = cb_effects
            [] v = "log" -> log_counter' = log_counter
            [] v = "drops" -> cb_drops' = cb_drops
            [] v = "term" -> cb_terminate' = cb_terminate
            [] v = "data" -> has_data' = has_data
            [] v = "out" -> stdout_owner' = stdout_owner
    /\ UNCHANGED cb_backend
    /\ CbOthersUnchanged

\* another thread prints (the DSP worker, the controller): it holds the
\* lock of stdout while it writes
OtherPrint ==
    /\ stdout_owner = "none"
    /\ stdout_owner' = "other"
    /\ CbStay({"out"})

OtherPrinted ==
    /\ stdout_owner = "other"
    /\ stdout_owner' = "none"
    /\ CbStay({"out"})

\* println! in a callback, 1: lock stdout (the callback waits while another
\* thread holds it) and write
CbPrintLock ==
    /\ cb_pc = "log"
    /\ stdout_owner = "none"
    /\ stdout_owner' = "callback"
    /\ cb_effects' = cb_effects \cup {"lock", "io"}
    /\ cb_pc' = "log_write"
    /\ CbStay({"out", "effects", "pc"})

\* println! in a callback, 2: unlock stdout
CbPrintUnlock ==
    /\ cb_pc = "log_write"
    /\ stdout_owner' = "none"
    /\ cb_pc' = IF cb_backend = "tap" THEN "push" ELSE "idle"
    /\ CbStay({"out", "pc"})

\* microphone.rs, the f32 callback: is_running.load, push_slice
MicCallback ==
    /\ cb_backend = "mic"
    /\ cb_pc = "idle"
    /\ \E is_running \in BOOLEAN :
         cb_effects' = IF is_running THEN {"atomic", "push"} ELSE {"atomic"}
    /\ CbStay({"effects"})

\* sck.rs impl_stream_did_output_sample_buf: a video buffer is ignored, an
\* audio buffer is pushed, a failure to read the buffer list is printed
SckCallback ==
    /\ cb_backend = "sck"
    /\ cb_pc = "idle"
    /\ \E outcome \in {"video", "audio", "err"} :
         /\ cb_effects' = IF outcome = "audio" THEN {"push"} ELSE {}
         /\ cb_pc' = IF outcome = "err" THEN "log" ELSE "idle"
    /\ CbStay({"effects", "pc"})

\* process_audio_data, 1: LOG_COUNTER += 1; every LOG_EVERY-th invocation
\* prints the chunk statistics
TapEnter ==
    /\ cb_backend = "tap"
    /\ cb_pc = "idle"
    /\ cb_drops <= DROP_LIMIT + 1
    /\ log_counter' = (log_counter + 1) % LOG_EVERY
    /\ cb_effects' = {"atomic"}       \* current_sample_rate.store
    /\ cb_pc' = IF log_counter' = 0 THEN "log" ELSE "push"
    /\ CbStay({"log", "effects", "pc"})

\* process_audio_data, 2: push_slice and the count of consecutive drops
\* (eprintln! at DROP_WARN and beyond DROP_LIMIT)
TapPush ==
    /\ cb_backend = "tap"
    /\ cb_pc = "push"
    /\ \E full \in BOOLEAN :
         LET consecutive == cb_drops + 1
         IN IF full
            THEN /\ cb_drops' = consecutive
                 /\ cb_effects' = cb_effects \cup {"push", "atomic"} \cup
                        (IF consecutive = DROP_WARN \/ consecutive > DROP_LIMIT
                         THEN {"lock", "io"} ELSE {})
                 /\ cb_terminate' = (cb_terminate \/ consecutive > DROP_LIMIT)
                 /\ cb_pc' = IF consecutive > DROP_LIMIT THEN "idle"
                             ELSE "wake"
            ELSE /\ cb_drops' = 0
                 /\ cb_effects' = cb_effects \cup {"push", "atomic"}
                 /\ cb_pc' = "wake"
                 /\ UNCHANGED cb_terminate
    /\ CbStay({"drops", "effects", "term", "pc"})

\* process_audio_data, 3: ctx.waker_state.lock(), has_data = true
\* (only the callback holds a handle of this mutex)
TapWake ==
    /\ cb_backend = "tap"
    /\ cb_pc = "wake"
    /\ cb_effects' = cb_effects \cup {"lock"}
    /\ has_data' = TRUE
    /\ cb_pc' = "idle"
    /\ CbStay({"effects", "data", "pc"})

CbNext ==
    \/ OtherPrint
    \/ OtherPrinted
    \/ CbPrintLock
    \/ CbPrintUnlock
    \/ MicCallback
    \/ SckCallback
    \/ TapEnter
    \/ TapPush
    \/ TapWake

SpecCb == CbInit /\ [][CbNext]_vars

\* C11: a callback invocation performs nothing but atomic operations and
\* ring pushes, and never waits for a lock another thread holds.
C11_CallbacksLockFree ==
    /\ cb_effects \subseteq {"atomic", "push"}
    /\ ~(cb_pc = "log" /\ stdout_owner = "other")

\* C24: an invocation of the audio-tap callback that drops samples adds
\* one to consecutive_drops and one that drops none sets it to 0; an
\* invocation that leaves the count at DROP_WARN or more writes a warning;
\* the terminate flag is set by the invocations that leave the count above
\* DROP_LIMIT and by no other.
C24_DropCounting ==
    [][(cb_backend = "tap" /\ cb_pc = "push" /\ cb_pc' # "push") =>
         /\ cb_drops' \in {0, cb_drops + 1}
         /\ cb_drops' >= DROP_WARN => "io" \in cb_effects'
         /\ cb_drops' > DROP_LIMIT => cb_terminate'
         /\ (cb_terminate' /\ ~cb_terminate) => cb_drops' > DROP_LIMIT]_vars

(***************************************************************************)
(* Properties of the resampler fed in chunks.                              *)
(***************************************************************************)

\* floor(n * 16000 / Fin) for the resampler of the run
ExpectedOutputs(n) == (n * resampler.den) \div resampler.ratio_num

\* C12: after any number of input samples, fed in any chunks, the number
\* of output samples is floor(N * 16000 / Fin) give or take one.
C12_RateCorrectness ==
    /\ Len(res_out) >= ExpectedOutputs(res_fed) - 1
    /\ Len(res_out) <= ExpectedOutputs(res_fed) + 1

\* a whole stream went through a 3:1 resampler in several chunks and gave
\* one sample more than the floor
C12_Witness ==
    /\ res_fed = MaxStream
    /\ Len(res_calls) >= 2
    /\ resampler.ratio_num = 3 /\ resampler.den = 1
    /\ Len(res_out) = ExpectedOutputs(res_fed) + 1

(***************************************************************************)
(* Properties of the system-audio source.                                  *)
(***************************************************************************)

\* C13: every stream opened by a controller that was constructed with the
\* device id "sck" is a screen-capture stream.
C13_SentinelForcesSck ==
    (kind = "sys" /\ device_arg = "sck") =>
        \A s \in 1..Len(streams) : streams[s].backend = "sck"

(***************************************************************************)
(* Opening the screen capture: sck.rs SpeakerInput::new and                *)
(* SpeakerInput::stream on the opening thread, and the two completion      *)
(* handlers the OS runs on its own threads (or never).                     *)
(***************************************************************************)

SckOthersUnchanged == UNCHANGED <<supVars, resVars, pipeVars, cbVars>>

SckInit ==
    /\ SupIdle
    /\ ResIdle
    /\ PipeIdle
    /\ CbIdle
    /\ SckIdle

\* SpeakerInput::new up to the wait: ShareableContent::current_with_ch
SckNew ==
    /\ sck_pc = "idle"
    /\ sck_pc' = "content_wait"
    /\ UNCHANGED <<sck_polls, content_cb, content_cell, content_ready,
                   content_error, start_cb, start_complete, start_error,
                   sck_result>>
    /\ SckOthersUnchanged

\* the shareable-content handler is called with content: it begins the
\* assignment "*cell_clone.get() = Some(c.retained())".  The cell is an
\* UnsafeCell: nothing keeps another thread from reading it meanwhile.
ContentHandlerWrite ==
    /\ sck_pc # "idle"
    /\ content_cb = "pending"
    /\ content_cb' = "writing"
    /\ UNCHANGED <<sck_pc, sck_polls, content_cell, content_ready,
                   content_error, start_cb, start_complete, start_error,
                   sck_result>>
    /\ SckOthersUnchanged

\* the shareable-content handler, 1: record the error, or end the
\* assignment of the content
ContentHandlerStore ==
    /\ sck_pc # "idle"
    /\ content_cb \in {"pending", "writing"}
    /\ \E outcome \in (IF content_cb = "writing" THEN {"content"}
                        ELSE {"error", "neither"}) :
         /\ content_error' = (outcome = "error")
         /\ content_cell' = (outcome = "content")
    /\ content_cb' = "stored"
    /\ UNCHANGED <<sck_pc, sck_polls, content_ready, start_cb,
                   start_complete, start_error, sck_result>>
    /\ SckOthersUnchanged

\* the shareable-content handler, 2: ready_clone.store(true)
ContentHandlerReady ==
    /\ content_cb = "stored"
    /\ content_ready' = TRUE
    /\ content_cb' = "done"
    /\ UNCHANGED <<sck_pc, sck_polls, content_cell, content_error, start_cb,
                   start_complete, start_error, sck_result>>
    /\ SckOthersUnchanged

\* one turn of "for _ in 0..500": break when ready, else sleep 10 ms
SckContentPoll ==
    /\ sck_pc = "content_wait"
    /\ IF content_ready \/ sck_polls = CONTENT_POLLS
       THEN sck_pc' = "content_check" /\ UNCHANGED sck_polls
       ELSE sck_polls' = sck_polls + 1 /\ UNCHANGED sck_pc
    /\ UNCHANGED <<content_cb, content_cell, content_ready, content_error,
                   start_cb, start_complete, start_error, sck_result>>
    /\ SckOthersUnchanged

\* SpeakerInput::new after the wait: the error flag, the content cell, the
\* displays.  "(*content_cell.get()).take()" while the handler is writing
\* the cell is a data race: it finds Some or None.
SckContentCheck ==
    /\ sck_pc = "content_check"
    /\ \E found \in (IF content_cb = "writing" THEN BOOLEAN
                      ELSE {content_cell}) :
         IF content_error
         THEN /\ sck_result' = "err_denied"
              /\ sck_pc' = "failed"
              /\ UNCHANGED content_cell
         ELSE IF ~found
         THEN /\ sck_result' = "err_timeout"
              /\ sck_pc' = "failed"
              /\ content_cell' = FALSE
         ELSE /\ content_cell' = FALSE
              /\ \E displays \in BOOLEAN :
                    IF displays
                    THEN sck_pc' = "input" /\ UNCHANGED sck_result
                    ELSE sck_pc' = "failed" /\ sck_result' = "err_displays"
    /\ UNCHANGED <<sck_polls, content_cb, content_ready, content_error,
                   start_cb, start_complete, start_error>>
    /\ SckOthersUnchanged

\* SpeakerInput::stream up to the wait: stream.start_with_ch
SckStreamStart ==
    /\ sck_pc = "input"
    /\ sck_pc' = "start_wait"
    /\ sck_polls' = 0
    /\ UNCHANGED <<content_cb, content_cell, content_ready, content_error,
                   start_cb, start_complete, start_error, sck_result>>
    /\ SckOthersUnchanged

\* the stream-start handler, 1: error_clone.store(2 or 1)
StartHandlerStore ==
    /\ sck_pc \in {"start_wait", "start_check", "done"}
    /\ start_cb = "pending"
    /\ \E err \in BOOLEAN : start_error' = IF err THEN 2 ELSE 1
    /\ start_cb' = "stored"
    /\ UNCHANGED <<sck_pc, sck_polls, content_cb, content_cell,
                   content_ready, content_error, start_complete, sck_result>>
    /\ SckOthersUnchanged

\* the stream-start handler, 2: complete_clone.store(true)
StartHandlerComplete ==
    /\ start_cb = "stored"
    /\ start_complete' = TRUE
    /\ start_cb' = "done"
    /\ UNCHANGED <<sck_pc, sck_polls, content_cb, content_cell,
                   content_ready, content_error, start_error, sck_result>>
    /\ SckOthersUnchanged

\* one turn of "for _ in 0..200": break when complete, else sleep 10 ms
SckStartPoll ==
    /\ sck_pc = "start_wait"
    /\ IF start_complete \/ sck_polls = START_POLLS
       THEN sck_pc' = "start_check" /\ UNCHANGED sck_polls
       ELSE sck_polls' = sck_polls + 1 /\ UNCHANGED sck_pc
    /\ UNCHANGED <<content_cb, content_cell, content_ready, content_error,
                   start_cb, start_complete, start_error, sck_result>>
    /\ SckOthersUnchanged

\* SpeakerInput::stream after the wait: status 0 and status 2 are printed
\* as warnings, and the SpeakerStream is returned
SckStartCheck ==
    /\ sck_pc = "start_check"
    /\ sck_result' = "stream"
    /\ sck_pc' = "done"
    /\ UNCHANGED <<sck_polls, content_cb, content_cell, content_ready,
                   content_error, start_cb, start_complete, start_error>>
    /\ SckOthersUnchanged

SckNext ==
    \/ SckNew
    \/ ContentHandlerWrite
    \/ ContentHandlerStore
    \/ ContentHandlerReady
    \/ SckContentPoll
    \/ SckContentCheck
    \/ SckStreamStart
    \/ StartHandlerStore
    \/ StartHandlerComplete
    \/ SckStartPoll
    \/ SckStartCheck

SpecSck == SckInit /\ [][SckNext]_vars

\* C14: neither wait loops beyond its number of polls; an opening whose
\* content handler has not completed when the wait is over fails; a stream
\* whose start has not been reported successful when the wait is over is
\* not returned.
C14_WaitsSurfaceFailure ==
    /\ [](sck_pc = "content_wait" => sck_polls <= CONTENT_POLLS)
    /\ [](sck_pc = "start_wait" => sck_polls <= START_POLLS)
    /\ [][(sck_pc = "content_check" /\ ~content_ready)
            => sck_pc' \in {"content_check", "failed"}]_vars
    /\ [][(sck_pc = "start_check" /\ start_error # 1)
            => sck_result' # "stream"]_vars

\* C29: the opening thread never takes the content out of the cell while
\* the handler is writing it, whether the wait ended by the ready flag or
\* by its last poll.
C29_ContentCellExclusive ==
    [][(/\ sck_pc = "content_check"
        /\ sck_pc' # "content_check"
        /\ ~content_error)
       => content_cb # "writing"]_vars

(***************************************************************************)
(* Properties of the frame dispatch.                                       *)
(***************************************************************************)

\* the frame worker w hands to the suppressor next
NextFrame(w) ==
    [i \in 1..FRAME_SAMPLES |-> workers[w].frame_buffer[i].val]

\* worker w takes a frame in this step and the suppressor answers with kind
Answers(w, kind_) ==
    /\ workers[w].pc = "frames"
    /\ Len(workers[w].frame_buffer) >= FRAME_SAMPLES
    /\ workers'[w].frame_buffer # workers[w].frame_buffer
    /\ process(workers[w].suppressor, NextFrame(w), pipe_now').action.kind
          = kind_

\* C15: when the suppressor answers SendSilence the worker makes exactly
\* one sink invocation, with FRAME_SAMPLES zeros, whatever the frame held;
\* every SendSilence delivery is such a frame.
C15_SilenceFramesAreZero ==
    /\ [](\A i \in 1..Len(sink) :
            sink[i].kind = "SendSilence" =>
               sink[i].samples = [k \in 1..FRAME_SAMPLES |-> 0])
    /\ [][\A w \in Workers :
            Answers(w, "SendSilence") =>
               /\ Len(sink') = Len(sink) + 1
               /\ SubSeq(sink', 1, Len(sink)) = sink
               /\ sink'[Len(sink')].w = w
               /\ sink'[Len(sink')].kind = "SendSilence"
               /\ sink'[Len(sink')].samples = [k \in 1..FRAME_SAMPLES |-> 0]
          ]_vars

\* a SendSilence delivery was made for a frame that held a non-zero sample
C15_Witness ==
    \E i \in 1..Len(sink) :
       /\ sink[i].kind = "SendSilence"
       /\ \E k \in 1..Len(sink[i].tags) : sink[i].tags[k].val # 0

(***************************************************************************)
(* Properties of the suppressor, continued.                                *)
(***************************************************************************)

LatestFrameIsSilent ==
    /\ sup_op = "process"
    /\ ~RmsAtLeast(sup_frame, suppressor.config.speech_threshold_rms)

\* C16: with speech_hangover = 0 a frame below the threshold is answered
\* SendSilence or Suppress, never Send, at whatever time it is processed.
C16_ZeroHangoverNeverSends ==
    (LatestFrameIsSilent /\ suppressor.config.speech_hangover = 0) =>
        sup_action.kind \in {"SendSilence", "Suppress"}

\* C20: a frame below the threshold processed in state Active is answered
\* Send with that frame and leaves the suppressor in Hangover, whatever
\* time has passed since last_speech_time.
C20_ActiveSilentFrameIsSent ==
    (LatestFrameIsSilent /\ sup_prev.state = "Active") =>
        /\ sup_action = ActSend(sup_frame)
        /\ suppressor.state = "Hangover"

\* C21: a frame below the threshold processed in state Hangover is
\* answered Send with that frame, the state staying Hangover, when
\* now - last_speech_time <= speech_hangover; otherwise the state becomes
\* Suppressed and the call answers by the keepalive rule: SendSilence when
\* now - last_keepalive_time >= silence_keepalive_interval, else Suppress.
C21_HangoverSilentFrame ==
    (LatestFrameIsSilent /\ sup_prev.state = "Hangover") =>
        IF now - sup_prev.last_speech_time <= sup_prev.config.speech_hangover
        THEN /\ sup_action = ActSend(sup_frame)
             /\ suppressor.state = "Hangover"
        ELSE /\ suppressor.state = "Suppressed"
             /\ sup_action =
                  IF now - sup_prev.last_keepalive_time
                        >= sup_prev.config.silence_keepalive_interval
                  THEN ActSendSilence ELSE ActSuppress

\* a silent frame processed in Hangover exactly speech_hangover after the
\* last speech
C21_Witness ==
    /\ LatestFrameIsSilent
    /\ sup_prev.state = "Hangover"
    /\ sup_prev.config.speech_hangover > 0
    /\ now - sup_prev.last_speech_time = sup_prev.config.speech_hangover
    /\ sup_action.kind = "Send"

\* C22: a frame below the threshold processed in state Suppressed is
\* answered SendSilence, with last_keepalive_time set to now, exactly when
\* now - last_keepalive_time >= silence_keepalive_interval, and Suppress
\* with last_keepalive_time unchanged otherwise; the state stays
\* Suppressed.
C22_SuppressedSilentFrame ==
    (LatestFrameIsSilent /\ sup_prev.state = "Suppressed") =>
        /\ suppressor.state = "Suppressed"
        /\ IF now - sup_prev.last_keepalive_time
                 >= sup_prev.config.silence_keepalive_interval
           THEN /\ sup_action = ActSendSilence
                /\ suppressor.last_keepalive_time = now
           ELSE /\ sup_action = ActSuppress
                /\ suppressor.last_keepalive_time
                     = sup_prev.last_keepalive_time

\* a silent frame processed in Suppressed exactly one keepalive interval
\* after the last keepalive, following one that was suppressed
C22_Witness ==
    /\ LatestFrameIsSilent
    /\ sup_prev.state = "Suppressed"
    /\ now - sup_prev.last_keepalive_time
          = sup_prev.config.silence_keepalive_interval
    /\ sup_prev.frames_suppressed > 0
    /\ sup_action = ActSendSilence

\* C25: reset, from any state, leaves the suppressor Active with
\* last_speech_time and last_keepalive_time at the time of the call and
\* with the counters and the config it had; a frame below the threshold
\* processed no later than speech_hangover after a reset is answered Send
\* with that frame.
C25_ResetEffect ==
    /\ [](sup_op = "reset" =>
            suppressor = [sup_prev EXCEPT !.state = "Active",
                                          !.last_speech_time = now,
                                          !.last_keepalive_time = now])
    /\ [][(/\ sup_op = "reset"
           /\ sup_op' = "process"
           /\ ~RmsAtLeast(sup_frame', suppressor.config.speech_threshold_rms)
           /\ now' - now <= suppressor.config.speech_hangover)
          => sup_action' = ActSend(sup_frame')]_vars

\* a suppressor that had suppressed frames was reset, and a silent frame
\* processed later, within the hangover, was sent
C25_Witness ==
    /\ LatestFrameIsSilent
    /\ sup_prev.state = "Active"
    /\ sup_prev.frames_suppressed > 0
    /\ sup_prev.last_keepalive_time = sup_prev.last_speech_time
    /\ now > sup_prev.last_speech_time
    /\ sup_action = ActSend(sup_frame)

\* C36: the action process returns and the state it leaves agree: Send
\* exactly with Active or Hangover (is_speech), SendSilence or Suppress
\* exactly with Suppressed; a fresh suppressor is Active, is_speech true.
C36_ActionAgreesWithState ==
    /\ sup_op = "new" =>
          (suppressor.state = "Active" /\ is_speech(suppressor))
    /\ sup_op = "process" =>
          /\ sup_action.kind = "Send" <=> is_speech(suppressor)
          /\ sup_action.kind \in {"SendSilence", "Suppress"}
                <=> suppressor.state = "Suppressed"
          /\ is_speech(suppressor) <=> suppressor.state # "Suppressed"

\* the frame that ends the hangover is suppressed
C36_Witness ==
    /\ LatestFrameIsSilent
    /\ sup_prev.state = "Hangover"
    /\ suppressor.state = "Suppressed"
    /\ sup_action = ActSuppress
    /\ ~is_speech(suppressor)

\* C37: a silent frame given to a Suppressed suppressor, whenever it comes,
\* leaves it Suppressed and is not returned as Send; no step takes the
\* suppressor from Suppressed to Hangover.
C37_SuppressedIsLeftBySpeechOrReset ==
    /\ [][(/\ suppressor.state = "Suppressed"
           /\ processed' = processed + 1
           /\ ~RmsAtLeast(sup_frame', suppressor.config.speech_threshold_rms))
          => (/\ suppressor'.state = "Suppressed"
              /\ sup_action'.kind \in {"SendSilence", "Suppress"})]_vars
    /\ [][suppressor.state = "Suppressed"
            => suppressor'.state # "Hangover"]_vars

\* a Suppressed suppressor was given a silent frame when a keepalive was
\* due, and stays Suppressed
C37_Witness ==
    /\ LatestFrameIsSilent
    /\ sup_prev.state = "Suppressed"
    /\ sup_action = ActSendSilence
    /\ suppressor.state = "Suppressed"
    /\ suppressor.frames_suppressed > 0

\* C39: a silent frame leaves last_speech_time as it was, a frame returned
\* as Send leaves last_keepalive_time as it was, and last_keepalive_time
\* changes only in a process call that returns SendSilence or in reset.
C39_TimestampFrames ==
    /\ [](LatestFrameIsSilent =>
            suppressor.last_speech_time = sup_prev.last_speech_time)
    /\ []((sup_op = "process" /\ sup_action.kind = "Send") =>
            suppressor.last_keepalive_time = sup_prev.last_keepalive_time)
    /\ [][suppressor'.last_keepalive_time # suppressor.last_keepalive_time
            => \/ sup_op' = "reset"
               \/ /\ processed' = processed + 1
                  /\ sup_action'.kind = "SendSilence"]_vars

\* a silent frame sent in the hangover, later than the last speech and the
\* last keepalive
C39_Witness ==
    /\ LatestFrameIsSilent
    /\ sup_prev.state = "Hangover"
    /\ sup_action = ActSend(sup_frame)
    /\ now > suppressor.last_speech_time
    /\ now > suppressor.last_keepalive_time
    /\ suppressor.last_speech_time > 0

(***************************************************************************)
(* A fresh microphone suppressor given RunFrames silent frames, one per    *)
(* FRAME_MS.                                                               *)
(***************************************************************************)

\* milliseconds between construction and the first frame
RunOffsets == {0, 10, FRAME_MS}

RunInit ==
    /\ ResIdle
    /\ PipeIdle
    /\ AuxIdle
    /\ suppressor = SuppressorNew(ConfigMicrophone, 0)
    /\ now = 0
    /\ sup_op = "new"
    /\ sup_frame = <<>>
    /\ sup_action = ActSuppress
    /\ sup_prev = suppressor
    /\ processed = 0
    /\ phase = "silence"
    /\ last_delivery = None
    /\ delivery_gap = None

RunFrame ==
    /\ processed < RunFrames
    /\ \E frame \in SilentFrames(suppressor.config),
          dt \in (IF processed = 0 THEN RunOffsets ELSE {FRAME_MS}) :
          SupCall(frame, now + dt)
    /\ UNCHANGED <<phase, last_delivery, delivery_gap>>
    /\ UNCHANGED <<resVars, pipeVars, auxVars>>

SpecRun == RunInit /\ [][RunFrame]_vars

\* frames the keepalive interval spans, and frames a fresh suppressor
\* passes before the hangover is over
KeepaliveFrames ==
    (ConfigMicrophone.silence_keepalive_interval + FRAME_MS - 1) \div FRAME_MS
HangoverFrames == ConfigMicrophone.speech_hangover \div FRAME_MS + 1

\* one frame in KeepaliveFrames of the whole run, rounded up
KeepaliveShare == (RunFrames + KeepaliveFrames - 1) \div KeepaliveFrames

\* C17: in the run, once Suppressed, a frame is answered SendSilence when
\* the keepalive interval has passed since the last one and Suppress
\* otherwise, which is one frame in KeepaliveFrames (5); after RunFrames
\* frames frames_sent is ceil(RunFrames / 5) plus at most the frames of the
\* hangover, and frames_suppressed is the rest.
C17_SilentRunCounts ==
    /\ suppressor.frames_sent + suppressor.frames_suppressed = processed
    /\ suppressor.state = "Suppressed" =>
          /\ now - suppressor.last_keepalive_time
                <= (KeepaliveFrames - 1) * FRAME_MS
          /\ sup_action.kind = "SendSilence"
                <=> now = suppressor.last_keepalive_time
          /\ sup_action.kind = "Suppress"
                <=> now # suppressor.last_keepalive_time
          /\ sup_action.kind = "SendSilence" /\ sup_prev.state = "Suppressed"
                => now - sup_prev.last_keepalive_time
                     = KeepaliveFrames * FRAME_MS
    /\ processed = RunFrames =>
          /\ suppressor.frames_sent >= KeepaliveShare
          /\ suppressor.frames_sent <= KeepaliveShare + HangoverFrames

\* the run is over: the suppressor is Suppressed and has suppressed more
\* than three frames for each one it sent
C17_Witness ==
    /\ processed = RunFrames
    /\ suppressor.state = "Suppressed"
    /\ suppressor.frames_suppressed > 3 * suppressor.frames_sent

(***************************************************************************)
(* The choice of the system-audio backend.                                 *)
(***************************************************************************)

\* C19: a start of the system-audio capture ends with a source opened and
\* started (on the audio tap, or on the screen capture when the audio tap
\* failed to open or to start), or with the error of the screen capture,
\* the last backend tried.
C19_FallsBackOnAnyTapError ==
    kind = "sys" =>
      \A i \in 1..Len(ctl_hist) :
         ctl_hist[i].op = "start"
           => ctl_hist[i].result \in {"ok", "err_open"}

(***************************************************************************)
(* A started capture: one source and the DSP thread that start spawned     *)
(* for it.  The device of an audio tap can change its rate between two IO  *)
(* cycles.                                                                 *)
(***************************************************************************)

\* rates of the devices
WorkRates == {8000, 16000, 48000}

\* the state start leaves when it returns Ok
WorkInit ==
    /\ SupIdle
    /\ ResIdle
    /\ AuxIdle
    /\ kind \in {"mic", "sys"}
    /\ device_arg = "none"
    /\ device_id = "none"
    /\ stop_signal = FALSE
    /\ \E rate \in WorkRates :
         /\ streams = <<[NewStream(IF kind = "mic" THEN "mic" ELSE "tap",
                                   rate)
                           EXCEPT !.consumer = FALSE,
                                  !.is_running = (kind = "mic")]>>
         /\ workers = <<NewWorker(1, rate,
                                  IF kind = "mic" THEN ConfigMicrophone
                                  ELSE ConfigSystemAudio, 0)>>
    /\ stream = 1
    /\ capture_thread = 1
    /\ ctl_pc = "idle"
    /\ ctl_hist = <<[op |-> "start", result |-> "ok"]>>
    /\ sink = <<>>
    /\ pipe_now = 0
    /\ joined = {}
    /\ accepted = 0

WorkNext ==
    \/ \E rate \in WorkRates :
          /\ streams[1].backend = "tap" \/ rate = streams[1].sample_rate
          /\ CallbackAt(1, rate)
    \/ WCheck(1)
    \/ WPop(1)
    \/ WResample(1)
    \/ WFrame(1)

SpecWork == WorkInit /\ [][WorkNext]_vars

\* C23: the resampler of a worker converts from the rate its samples
\* were captured at: every sample of a batch about to be resampled was
\* captured at the input rate of the worker's resampler.
C23_ResamplerFollowsRate ==
    \A w \in 1..Len(workers) :
       workers[w].pc = "resample" =>
         \A i \in 1..Len(workers[w].raw_batch) :
            LET r == new(workers[w].raw_batch[i].rate, SAMPLE_RATE)
            IN /\ workers[w].resampler.ratio_num = r.ratio_num
               /\ workers[w].resampler.den = r.den

\* C28: the frame buffer of a worker never holds more than
\* 4 * FRAME_SAMPLES samples, a batch never more than DRAIN_BATCH, and the
\* frame buffer holds less than a frame when an iteration ends.
C28_FrameBufferBounded ==
    \A w \in 1..Len(workers) :
       /\ Len(workers[w].frame_buffer) <= 4 * FRAME_SAMPLES
       /\ Len(workers[w].raw_batch) <= DRAIN_BATCH
       /\ workers[w].pc = "check"
            => Len(workers[w].frame_buffer) < FRAME_SAMPLES

\* a full batch at 8 kHz was resampled to twice as many samples
C28_Witness ==
    /\ workers[1].pc = "frames"
    /\ workers[1].resampler.ratio_num = 1 /\ workers[1].resampler.den = 2
    /\ Len(workers[1].frame_buffer) = 2 * DRAIN_BATCH
    /\ Len(workers[1].frame_buffer) >= 3 * FRAME_SAMPLES

(***************************************************************************)
(* One MicrophoneStream: play and pause by its owner, the callback of the  *)
(* OS on the audio thread and the pops of the DSP thread.  A mono f32      *)
(* device is pushed with push_slice; any other format is pushed sample by  *)
(* sample with try_push.                                                   *)
(***************************************************************************)

MicInit ==
    /\ SupIdle
    /\ ResIdle
    /\ AuxIdle
    /\ kind = "mic"
    /\ device_arg = "none"
    /\ device_id = "none"
    /\ stop_signal = FALSE
    /\ capture_thread = None
    /\ streams = <<[NewStream("mic", SAMPLE_RATE) EXCEPT !.consumer = FALSE]>>
    /\ stream = 1
    /\ workers = <<>>
    /\ ctl_pc = "idle"
    /\ ctl_hist = <<>>
    /\ sink = <<>>
    /\ pipe_now = 0
    /\ joined = {}
    /\ accepted = 0

MicUnchanged ==
    /\ UNCHANGED <<kind, device_arg>>
    /\ UNCHANGED <<stop_signal, capture_thread, device_id, stream, workers,
                   ctl_pc, sink, pipe_now, joined, accepted>>
    /\ UNCHANGED <<supVars, resVars, auxVars>>

\* MicrophoneStream::play: the flag is stored when stream.play() succeeded
MicPlay ==
    /\ Len(ctl_hist) < MaxCalls
    /\ \E ok \in BOOLEAN :
         /\ streams' = [streams EXCEPT
                          ![1].is_running = IF ok THEN TRUE ELSE @]
         /\ Returned("play", IF ok THEN "ok" ELSE "err")
    /\ MicUnchanged

\* MicrophoneStream::pause: the flag is cleared when stream.pause()
\* succeeded; an error returns before the store
MicPause ==
    /\ Len(ctl_hist) < MaxCalls
    /\ \E ok \in BOOLEAN :
         /\ streams' = [streams EXCEPT
                          ![1].is_running = IF ok THEN FALSE ELSE @]
         /\ Returned("pause", IF ok THEN "ok" ELSE "err")
    /\ MicUnchanged

\* the callback is invoked with n samples: it returns when the flag is
\* clear; push_slice copies what fits; the per-sample loop begins
MicCallbackBegin ==
    LET st == streams[1]
    IN /\ st.pending = 0
       /\ \E n \in CallbackSizes, path \in {"slice", "each"} :
            LET pushed == Min(n, RingCapacity("mic") - Len(st.ring))
                data == [i \in 1..pushed |->
                           [id |-> 0, v |-> 0, rate |-> st.sample_rate]]
            IN streams' = [streams EXCEPT ![1] =
                 IF ~st.is_running THEN st
                 ELSE IF path = "slice"
                 THEN [st EXCEPT !.ring = @ \o data]
                 ELSE [st EXCEPT !.pending = n, !.dropped = 0]]
       /\ UNCHANGED ctl_hist
       /\ MicUnchanged

\* one turn of "for chunk in data.chunks(channels)":
\* let _ = producer.try_push(chunk[0])
MicCallbackPush ==
    LET st == streams[1]
    IN /\ st.pending > 0
       /\ streams' = [streams EXCEPT ![1] =
            IF Len(st.ring) < RingCapacity("mic")
            THEN [st EXCEPT !.ring = Append(@, [id |-> 0, v |-> 0,
                                               rate |-> st.sample_rate]),
                            !.pending = @ - 1]
            ELSE [st EXCEPT !.dropped = @ + 1, !.pending = @ - 1]]
       /\ UNCHANGED ctl_hist
       /\ MicUnchanged

\* the DSP thread: consumer.try_pop() returned a sample
ConsumerPop ==
    /\ streams[1].ring # <<>>
    /\ streams' = [streams EXCEPT ![1].ring = Tail(@)]
    /\ UNCHANGED ctl_hist
    /\ MicUnchanged

SpecMic ==
    /\ MicInit
    /\ [][MicPlay \/ MicPause \/ MicCallbackBegin \/ MicCallbackPush
            \/ ConsumerPop]_vars

\* C26: an invocation of the callback that finds the flag clear pushes
\* nothing; the flag is set only once a play has succeeded; when a pause
\* has returned the flag is clear.
C26_RunningFlag ==
    /\ [][(~streams[1].is_running /\ streams[1].pending = 0)
            => (/\ Len(streams'[1].ring) <= Len(streams[1].ring)
                /\ streams'[1].pending = 0)]_vars
    /\ [](streams[1].is_running
            => \E i \in 1..Len(ctl_hist) :
                  ctl_hist[i] = [op |-> "play", result |-> "ok"])
    /\ []((ctl_hist # <<>> /\ LastCall.op = "pause")
            => ~streams[1].is_running)

\* C27: within one invocation of a callback no sample is accepted into
\* the ring after a sample of the same buffer was dropped, whatever the
\* consumer pops meanwhile.
C27_AcceptedIsPrefix ==
    [][(/\ streams[1].pending > 0
        /\ Len(streams'[1].ring) > Len(streams[1].ring))
       => streams[1].dropped = 0]_vars

(***************************************************************************)
(* One frame of several strided samples given to a fresh suppressor.       *)
(***************************************************************************)

\* sample values around the thresholds: for two strided samples and the
\* threshold 100, 100 and 100 reach it, 99 and 100 do not, -142 alone does
RmsValues == {0, 99, 100, -142}

\* frames of RmsLen samples, and a frame of four samples all at i16::MIN
RmsFrames ==
    [1..RmsLen -> RmsValues] \cup {[i \in 1..4 |-> -32768]}

\* the first call of process, on a frame of RmsFrames
RmsProcess ==
    /\ sup_op = "new"
    /\ \E frame \in RmsFrames, dt \in Deltas : SupCall(frame, now + dt)
    /\ UNCHANGED <<phase, last_delivery, delivery_gap>>
    /\ UNCHANGED <<resVars, pipeVars, auxVars>>

SpecRms == SupInit /\ [][RmsProcess]_vars

\* the frame with every sample off the stride of 4 replaced by zero
StrideOnly(frame) ==
    [i \in 1..Len(frame) |-> IF i % 4 = 1 THEN frame[i] ELSE 0]

\* C33: process finds speech (and leaves the suppressor Active) exactly
\* when the sum of the squares of the samples at indices 0, 4, 8, ... is at
\* least speech_threshold_rms^2 times their number, i16::MIN included; the
\* other samples influence neither the action nor the suppressor.
C33_StridedRms ==
    sup_op = "process" =>
      LET strided == {i \in 1..Len(sup_frame) : i % 4 = 1}
          threshold == suppressor.config.speech_threshold_rms
          masked == process(sup_prev, StrideOnly(sup_frame), now)
      IN /\ suppressor.state = "Active"
              <=> SumSquares(sup_frame, strided)
                    >= threshold * threshold * Cardinality(strided)
         /\ masked.sup = suppressor
         /\ masked.action.kind = sup_action.kind

\* two strided samples of 99 and 100 among louder samples off the stride,
\* at the threshold 100: no speech, and the hangover has passed
C33_Witness ==
    /\ sup_op = "process"
    /\ suppressor.config.speech_threshold_rms = 100
    /\ Len(sup_frame) = RmsLen
    /\ sup_frame[1] = 99 /\ sup_frame[5] = 100
    /\ \A i \in {2, 3, 4, 6} : sup_frame[i] = -142
    /\ sup_action = ActSendSilence

(***************************************************************************)
(* A controller whose caller starts and stops it in any order.             *)
(***************************************************************************)

CtlNext ==
    \/ MicStartCall
    \/ SysStartCall
    \/ Stop
    \/ StopJoin
    \/ \E s \in 1..Len(streams) : accepted < CtlAccepted /\ Callback(s)
    \/ \E w \in 1..Len(workers) : WCheck(w)
    \/ \E w \in 1..Len(workers) : WPop(w)
    \/ \E w \in 1..Len(workers) : WResample(w)
    \/ \E w \in 1..Len(workers) : WFrame(w)

SpecCtl == PipeInit /\ [][CtlNext]_vars

\* the DSP threads that have not left their loop
Running == {w \in Workers : workers[w].pc # "done"}

\* C34: at most one DSP worker of the controller is running at any time,
\* and once a stop has returned no worker spawned before it is running.
C34_OneWorker ==
    /\ Cardinality(Running) <= 1
    /\ (Len(ctl_hist) > 0 /\ LastCall.op = "stop" /\ ctl_pc = "idle")
         => Running = {}

\* the step is a call of start that returns an error
StartFails ==
    /\ Len(ctl_hist') = Len(ctl_hist) + 1
    /\ ctl_hist'[Len(ctl_hist')].op = "start"
    /\ ctl_hist'[Len(ctl_hist')].result
          \in {"err_play", "err_consumer", "err_open"}

\* C35: a start that returns an error has spawned no worker, has not set
\* the microphone capturing, and has left the configured device id to a
\* later start.
C35_FailedStartChangesNothing ==
    [][StartFails =>
         /\ workers' = workers
         /\ capture_thread' = capture_thread
         /\ device_id' = device_id
         /\ kind = "mic" =>
               streams'[stream].is_running = streams[stream].is_running]_vars
====
